---- MODULE Spec2Model ----
(***************************************************************************)
(* A model of the Outlook task pane of llm-to-outlook:                     *)
(*   src/src/settings/settings.js  (task pane part, lines 388-1464)        *)
(*   src/src/lib/llm-providers.js, src/src/lib/storage.js,                 *)
(*   src/unnamed/part_000 (the prompt manager).                            *)
(*                                                                         *)
(* Text is modelled by TLA+ strings, read character by character with      *)
(* SubSeq, Len and \o.  Regular expressions of the source are written as   *)
(* sequences of items and run by a backtracking matcher (MatchFrom) that   *)
(* follows the priority order of JavaScript's matcher.                     *)
(***************************************************************************)
EXTENDS Integers, Sequences, FiniteSets, TLC

(***************************************************************************)
(* Characters and strings                                                  *)
(***************************************************************************)
CharAt(s, i) == SubSeq(s, i, i)

CharsOf(s) == {SubSeq(s, i, i) : i \in 1..Len(s)}

\* F applied to the value of x, computed once and before F is: a local
\* constant `const v = x` of the code that the statements after it read
Let(x, F(_)) == IF x = x THEN F(x) ELSE F(x)

\* The white space of String.prototype.trim and of \s that the modelled
\* texts use (no "\r": the line terminator of every modelled text is "\n").
WhiteSpace == {" ", "\n", "\t"}

LowerLetters == "abcdefghijklmnopqrstuvwxyzéàü"

UpperLetters == "ABCDEFGHIJKLMNOPQRSTUVWXYZÉÀÜ"

Digits == {"0", "1", "2", "3", "4", "5", "6", "7", "8", "9"}

LowerMap == [c \in CharsOf(UpperLetters) |->
               LET i == CHOOSE k \in 1..Len(UpperLetters) : CharAt(UpperLetters, k) = c
               IN  CharAt(LowerLetters, i)]

LowerChar(c) == IF c \in DOMAIN LowerMap THEN LowerMap[c] ELSE c

\* String.prototype.toLowerCase, one half of the string after the other
RECURSIVE ToLower(_)
ToLower(s) ==
    IF Len(s) <= 1 THEN LowerChar(s)
    ELSE ToLower(SubSeq(s, 1, Len(s) \div 2)) \o ToLower(SubSeq(s, Len(s) \div 2 + 1, Len(s)))

RECURSIVE TrimStart(_)
TrimStart(s) ==
    IF s # "" /\ CharAt(s, 1) \in WhiteSpace THEN TrimStart(SubSeq(s, 2, Len(s))) ELSE s

RECURSIVE TrimEnd(_)
TrimEnd(s) ==
    IF s # "" /\ CharAt(s, Len(s)) \in WhiteSpace THEN TrimEnd(SubSeq(s, 1, Len(s) - 1)) ELSE s

\* String.prototype.trim
Trim(s) == TrimEnd(TrimStart(s))

StartsAt(s, i, p) == i + Len(p) - 1 <= Len(s) /\ SubSeq(s, i, i + Len(p) - 1) = p

\* String.prototype.endsWith
EndsWith(s, p) == Len(p) <= Len(s) /\ SubSeq(s, Len(s) - Len(p) + 1, Len(s)) = p

\* String.prototype.includes
Includes(s, p) == \E i \in 1..(Len(s) - Len(p) + 1) : StartsAt(s, i, p)

\* String.prototype.indexOf, 1-based; 0 when p does not occur at or after from
IndexFrom(s, p, from) ==
    LET found == {i \in from..(Len(s) - Len(p) + 1) : StartsAt(s, i, p)}
    IN  IF found = {} THEN 0 ELSE CHOOSE i \in found : \A k \in found : i <= k

\* String.prototype.split("\n")
RECURSIVE SplitLines(_)
SplitLines(s) ==
    LET k == IndexFrom(s, "\n", 1)
    IN  IF k = 0 THEN <<s>>
        ELSE <<SubSeq(s, 1, k - 1)>> \o SplitLines(SubSeq(s, k + 1, Len(s)))

\* Array.prototype.join
RECURSIVE Join(_, _)
Join(xs, sep) ==
    IF Len(xs) = 0 THEN ""
    ELSE IF Len(xs) = 1 THEN xs[1]
    ELSE xs[1] \o sep \o Join(Tail(xs), sep)

(***************************************************************************)
(* Regular expressions.  A pattern is a sequence of items:                 *)
(*   rep : a character class repeated min..max times (max = 0: no upper    *)
(*         limit), greedy or lazy                                          *)
(*   bol, eol : ^ and $ under the m flag                                   *)
(*   la  : (?=literal)      nla : (?!class)      nlb : (?<!class)          *)
(*   gs, ge : the start and the end of capture group 1                     *)
(* A class is a set of characters, or its complement (neg).                *)
(***************************************************************************)
Cls(S) == [neg |-> FALSE, set |-> S]

NotCls(S) == [neg |-> TRUE, set |-> S]

\* [\s\S]
AnyChar == NotCls({})

\* .
Dot == NotCls({"\n"})

InCls(c, cls) == (c \in cls.set) # cls.neg

Rep(cls, min, max, lazy) == [k |-> "rep", cls |-> cls, min |-> min, max |-> max, lazy |-> lazy]

One(cls) == <<Rep(cls, 1, 1, FALSE)>>

Star(cls) == <<Rep(cls, 0, 0, FALSE)>>

Plus(cls) == <<Rep(cls, 1, 0, FALSE)>>

StarLazy(cls) == <<Rep(cls, 0, 0, TRUE)>>

PlusLazy(cls) == <<Rep(cls, 1, 0, TRUE)>>

Opt(cls) == <<Rep(cls, 0, 1, FALSE)>>

Lit(str) == [i \in 1..Len(str) |-> Rep(Cls({CharAt(str, i)}), 1, 1, FALSE)]

\* a literal of a pattern with the i flag: matched against the lowered input
LitI(str) == Lit(ToLower(str))

Bol == <<[k |-> "bol"]>>

Eol == <<[k |-> "eol"]>>

LookAhead(str) == <<[k |-> "la", str |-> str]>>

NotAhead(cls) == <<[k |-> "nla", cls |-> cls]>>

NotBehind(cls) == <<[k |-> "nlb", cls |-> cls]>>

GroupStart == <<[k |-> "gs"]>>

GroupEnd == <<[k |-> "ge"]>>

NoMatch == [ok |-> FALSE, start |-> 0, end |-> 0, gs |-> 0, ge |-> 0]

\* the number of consecutive characters of s from i that are in cls, at most lim
RunLen(s, i, cls, lim) ==
    LET stop == {n \in 0..lim : n = lim \/ i + n > Len(s) \/ ~InCls(CharAt(s, i + n), cls)}
    IN  CHOOSE n \in stop : \A k \in stop : n <= k

\* MatchFrom(p, j, s, i, m): items j.. of p matched at position i of s (the
\* next character to read); m carries the match so far.  The first success
\* in the matcher's priority order is returned.
RECURSIVE MatchFrom(_, _, _, _, _)
\* item j repeated first + k * step times for k = lo, lo + 1, ..., hi in
\* this order, the rest of the pattern after it: the first success
RECURSIVE TryCounts(_, _, _, _, _, _, _, _, _)
TryCounts(p, j, s, i, m, first, step, lo, hi) ==
    IF lo = hi THEN MatchFrom(p, j + 1, s, i + first + lo * step, m)
    ELSE LET mid == (lo + hi) \div 2
             r == TryCounts(p, j, s, i, m, first, step, lo, mid)
         IN  IF r.ok THEN r ELSE TryCounts(p, j, s, i, m, first, step, mid + 1, hi)

MatchFrom(p, j, s, i, m) ==
    IF j > Len(p) THEN [m EXCEPT !.ok = TRUE, !.end = i]
    ELSE LET it == p[j] IN
         CASE it.k = "rep" ->
                LET run == RunLen(s, i, it.cls, IF it.max = 0 THEN Len(s) ELSE it.max)
                IN  IF run < it.min THEN NoMatch
                    ELSE IF it.lazy THEN TryCounts(p, j, s, i, m, it.min, 1, 0, run - it.min)
                    ELSE TryCounts(p, j, s, i, m, run, -1, 0, run - it.min)
           [] it.k = "bol" ->
                IF i = 1 \/ CharAt(s, i - 1) = "\n"
                THEN MatchFrom(p, j + 1, s, i, m) ELSE NoMatch
           [] it.k = "eol" ->
                IF i = Len(s) + 1 \/ CharAt(s, i) = "\n"
                THEN MatchFrom(p, j + 1, s, i, m) ELSE NoMatch
           [] it.k = "la" ->
                IF StartsAt(s, i, it.str) THEN MatchFrom(p, j + 1, s, i, m) ELSE NoMatch
           [] it.k = "nla" ->
                IF i <= Len(s) /\ InCls(CharAt(s, i), it.cls)
                THEN NoMatch ELSE MatchFrom(p, j + 1, s, i, m)
           [] it.k = "nlb" ->
                IF i > 1 /\ InCls(CharAt(s, i - 1), it.cls)
                THEN NoMatch ELSE MatchFrom(p, j + 1, s, i, m)
           [] it.k = "gs" -> MatchFrom(p, j + 1, s, i, [m EXCEPT !.gs = i])
           [] it.k = "ge" -> MatchFrom(p, j + 1, s, i, [m EXCEPT !.ge = i])

\* RegExp.prototype.exec from position from: the leftmost match.  start is
\* the first matched character, end the character after the last one.
RECURSIVE ExecRange(_, _, _, _)
ExecRange(p, s, lo, hi) ==
    IF lo > hi THEN NoMatch
    ELSE IF lo = hi THEN MatchFrom(p, 1, s, lo, [NoMatch EXCEPT !.start = lo])
    ELSE LET mid == (lo + hi) \div 2
             r == ExecRange(p, s, lo, mid)
         IN  IF r.ok THEN r ELSE ExecRange(p, s, mid + 1, hi)

ExecFrom(p, s, from) == ExecRange(p, s, from, Len(s) + 1)

\* the input as the matcher reads it: lowered under the i flag
Folded(s, ci) == IF ci THEN ToLower(s) ELSE s

\* RegExp.prototype.test
Test(p, s, ci) == Let(Folded(s, ci), LAMBDA sl : ExecFrom(p, sl, 1).ok)

\* A replacement: pre, then capture group 1 when useGroup, then post.
Const(str) == [pre |-> str, useGroup |-> FALSE, post |-> ""]

Wrap(pre, post) == [pre |-> pre, useGroup |-> TRUE, post |-> post]

Subst(s, r, repl) ==
    repl.pre \o (IF repl.useGroup THEN SubSeq(s, r.gs, r.ge - 1) ELSE "") \o repl.post

\* String.prototype.replace with a pattern without the g flag
ReplaceFirst(p, s, ci, repl) ==
    Let(ExecFrom(p, Folded(s, ci), 1), LAMBDA r :
        IF ~r.ok THEN s
        ELSE SubSeq(s, 1, r.start - 1) \o Subst(s, r, repl) \o SubSeq(s, r.end, Len(s)))

\* String.prototype.replace with a pattern with the g flag: after a match the
\* search goes on at its end (one further after an empty match).
RECURSIVE ReplaceAllFrom(_, _, _, _, _)
ReplaceAllFrom(p, s, sl, from, repl) ==
    Let(ExecFrom(p, sl, from), LAMBDA r :
        IF ~r.ok THEN SubSeq(s, from, Len(s))
        ELSE SubSeq(s, from, r.start - 1) \o Subst(s, r, repl) \o
             (IF r.end > r.start THEN ReplaceAllFrom(p, s, sl, r.end, repl)
              ELSE IF r.start > Len(s) THEN ""
              ELSE CharAt(s, r.start) \o ReplaceAllFrom(p, s, sl, r.start + 1, repl)))

ReplaceAll(p, s, ci, repl) ==
    Let(s, LAMBDA text : Let(Folded(text, ci), LAMBDA sl : ReplaceAllFrom(p, text, sl, 1, repl)))

(***************************************************************************)
(* stripSignature (settings.js 614-677)                                    *)
(***************************************************************************)
AZ == CharsOf("abcdefghijklmnopqrstuvwxyz")

\* a template is <<>> (null or undefined) or <<t>> for the string t
NoTemplate == <<>>

\* the threshold of `template.length > 5`
MinTemplateLen == 5

\* Strategy 1 applies: `template && template.length > 5` and result.endsWith(template)
TemplateMatches(result, template) ==
    /\ template # NoTemplate
    /\ template[1] # ""
    /\ Len(template[1]) > MinTemplateLen
    /\ EndsWith(result, template[1])

\* the closing phrases of signaturePatterns after the first entry, in list
\* order; each is /\n<phrase>[\s\S]*/i
closingPhrases ==
    << "Best regards,", "Kind regards,", "Regards,", "Sincerely,", "Thanks,",
       "Thank you,", "Cheers,", "Cordialement,", "Cdlt,",
       "Mit freundlichen Grüßen,", "MfG,", "Sent from my iPhone",
       "Sent from my Android", "Get Outlook for", "Envoyé de mon",
       "Verzonden vanaf" >>

\* /\n--\s*\n[\s\S]*/
dashPattern ==
    [p |-> Lit("\n--") \o Star(Cls(WhiteSpace)) \o Lit("\n") \o Star(AnyChar), ci |-> FALSE]

phrasePattern(phrase) == [p |-> LitI("\n" \o phrase) \o Star(AnyChar), ci |-> TRUE]

signaturePatterns ==
    <<dashPattern>> \o [i \in 1..Len(closingPhrases) |-> phrasePattern(closingPhrases[i])]

\* mutant of FirstPattern: the pattern whose match starts earliest in result
FirstPattern_EarliestInText(pats, result, k) ==
    Let({n \in k..Len(pats) : Test(pats[n].p, result, pats[n].ci)}, LAMBDA hits :
        IF hits = {} THEN 0
        ELSE CHOOSE n \in hits : \A m \in hits :
                 \/ ExecFrom(pats[n].p, Folded(result, pats[n].ci), 1).start
                        < ExecFrom(pats[m].p, Folded(result, pats[m].ci), 1).start
                 \/ /\ ExecFrom(pats[n].p, Folded(result, pats[n].ci), 1).start
                          = ExecFrom(pats[m].p, Folded(result, pats[m].ci), 1).start
                    /\ n <= m)

\* the loop `for (const pattern of signaturePatterns)`: the index of the first
\* pattern, from index k on, that tests true on result; 0 when none does
RECURSIVE FirstPattern(_, _, _)
FirstPattern(pats, result, k) ==
    IF k > Len(pats) THEN 0
    ELSE IF Test(pats[k].p, result, pats[k].ci) THEN k
    ELSE FirstPattern(pats, result, k + 1)

\* /\+?[\d\s\-\(\).]{8,20}/
phoneRegex == Opt(Cls({"+"})) \o <<Rep(Cls(Digits \cup WhiteSpace \cup {"-", "(", ")", "."}), 8, 20, FALSE)>>

\* /[a-z0-9._%+-]+@[a-z0-9.-]+\.[a-z]{2,}/i
emailRegex ==
    Plus(Cls(AZ \cup Digits \cup {".", "_", "%", "+", "-"})) \o Lit("@") \o
    Plus(Cls(AZ \cup Digits \cup {".", "-"})) \o Lit(".") \o <<Rep(Cls(AZ), 2, 0, FALSE)>>

\* hasPhone || hasEmail || hasUrl  (hasUrl is /www\.|http/i)
HasContactInfo(line) ==
    \/ Test(phoneRegex, line, FALSE)
    \/ Test(emailRegex, line, TRUE)
    \/ Test(LitI("www."), line, TRUE)
    \/ Test(LitI("http"), line, TRUE)

\* `lines.length > 3`
MinLines == 3

\* `Math.max(0, lines.length - 8)`
ScanWindow == 8

\* `i > lines.length - 10`
NearEnd == 10

\* mutant of ContactLine: the topmost contact line of the window, not the
\* first one met from the end
ContactLine_Topmost(lines, i) ==
    LET n == Len(lines)
        low == IF n - ScanWindow > 0 THEN n - ScanWindow ELSE 0
        hits == {k \in low..i : HasContactInfo(Trim(lines[k + 1])) /\ k > n - NearEnd}
    IN  IF hits = {} THEN -1 ELSE CHOOSE k \in hits : \A h \in hits : k <= h

\* the loop of Strategy 3 from the 0-based index i downward: the index of the
\* line the text is cut before, or -1 when the loop ends without a cut
RECURSIVE ContactLine(_, _)
ContactLine(lines, i) ==
    LET n == Len(lines)
        low == IF n - ScanWindow > 0 THEN n - ScanWindow ELSE 0
    IN  IF i < low THEN -1
        ELSE IF HasContactInfo(Trim(lines[i + 1])) /\ i > n - NearEnd THEN i
        ELSE ContactLine(lines, i - 1)

\* Strategy 3 on the lines of result
CutAtContactLine(result, lines) ==
    Let(IF Len(lines) > MinLines THEN ContactLine(lines, Len(lines) - 1) ELSE -1, LAMBDA i :
        IF i >= 0 THEN Trim(Join(SubSeq(lines, 1, i), "\n")) ELSE result)

\* Strategy 3 and the final `return result`
StructuralFallback(result) == CutAtContactLine(result, SplitLines(result))

\* Strategy 2 with pattern k of signaturePatterns
CutAtPattern(result, k) ==
    Trim(ReplaceFirst(signaturePatterns[k].p, result, signaturePatterns[k].ci, Const("")))

\* mutant of PhraseOrFallback: the structural fallback tried before the phrases
PhraseOrFallback_StructuralFirst(result) ==
    Let(StructuralFallback(result), LAMBDA cut :
        Let(FirstPattern(signaturePatterns, result, 1), LAMBDA k :
            IF cut # result THEN cut
            ELSE IF k # 0 THEN CutAtPattern(result, k)
            ELSE result))

\* Strategy 2, then Strategy 3
PhraseOrFallback(result) ==
    Let(FirstPattern(signaturePatterns, result, 1), LAMBDA k :
        IF k # 0 THEN CutAtPattern(result, k) ELSE StructuralFallback(result))

\* mutant of stripSignature: the text before the template is not trimmed
stripSignature_Untrimmed(text, template) ==
    Let(Trim(text), LAMBDA result :
        IF TemplateMatches(result, template)
        THEN SubSeq(result, 1, Len(result) - Len(template[1]))
        ELSE PhraseOrFallback(result))

stripSignature(text, template) ==
    Let(Trim(text), LAMBDA result :
        IF TemplateMatches(result, template)
        THEN Trim(SubSeq(result, 1, Len(result) - Len(template[1])))
        ELSE PhraseOrFallback(result))

(***************************************************************************)
(* cleanThreadContent (settings.js 685-745)                                *)
(***************************************************************************)
UpperAZ == CharsOf("ABCDEFGHIJKLMNOPQRSTUVWXYZ")

Spaces == Cls(WhiteSpace)

\* /<start>[\s\S]*?(?=<stop>)/gi with its replacement
RangePattern(start, stop, replacement) ==
    [p |-> start \o StarLazy(AnyChar) \o LookAhead(ToLower(stop)), ci |-> TRUE,
     repl |-> Const(replacement)]

rangePatterns ==
    << RangePattern(LitI("From:"), "Sent:", "From:\n"),
       RangePattern(LitI("Sent:"), "To:", "Sent:\n"),
       RangePattern(LitI("To:"), "Subject:", "To:\n"),
       RangePattern(LitI("De") \o Star(Spaces) \o Lit(":"), "Envoyé", "De:\n"),
       RangePattern(LitI("Envoyé") \o Star(Spaces) \o Lit(":"), "À", "Envoyé:\n"),
       RangePattern(LitI("À") \o Star(Spaces) \o Lit(":"), "Objet", "À:\n"),
       RangePattern(LitI("Von:"), "Gesendet", "Von:\n"),
       RangePattern(LitI("Gesendet:"), "An", "Gesendet:\n"),
       RangePattern(LitI("An:"), "Betreff", "An:\n") >>

\* /^<word>.*$/gm
HeaderLine(word) == [p |-> Bol \o Lit(word) \o Star(Dot) \o Eol, ci |-> FALSE, repl |-> Const("")]

\* /^<word>.*$/gim
HeaderLineI(word) == [p |-> Bol \o LitI(word) \o Star(Dot) \o Eol, ci |-> TRUE, repl |-> Const("")]

\* /^<open>\s+.*\s+<verb>\s*:\s*$/gim ("wrote:" being "wrote" \s* ":" without \s*)
WroteLine(open, verb, gap) ==
    [p |-> Bol \o LitI(open) \o Plus(Spaces) \o Star(Dot) \o Plus(Spaces) \o LitI(verb) \o
           gap \o Lit(":") \o Star(Spaces) \o Eol,
     ci |-> TRUE, repl |-> Const("")]

\* /<[a-zA-Z0-9._%+-]+@[a-zA-Z0-9.-]+\.[a-zA-Z]{2,}>/g
angleAddress ==
    [p |-> Lit("<") \o Plus(Cls(AZ \cup UpperAZ \cup Digits \cup {".", "_", "%", "+", "-"})) \o
           Lit("@") \o Plus(Cls(AZ \cup UpperAZ \cup Digits \cup {".", "-"})) \o Lit(".") \o
           <<Rep(Cls(AZ \cup UpperAZ), 2, 0, FALSE)>> \o Lit(">"),
     ci |-> FALSE, repl |-> Const("")]

\* /^[-_]{3,}.*$/gm
separatorLine ==
    [p |-> Bol \o <<Rep(Cls({"-", "_"}), 3, 0, FALSE)>> \o Star(Dot) \o Eol,
     ci |-> FALSE, repl |-> Const("")]

headerPatterns ==
    << HeaderLine("Cc:"), HeaderLine("Bcc:"), HeaderLine("Date:"), HeaderLine("Importance:"),
       angleAddress,
       WroteLine("On", "wrote", <<>>), WroteLine("Le", "a écrit", Star(Spaces)),
       WroteLine("Am", "schrieb", Star(Spaces)),
       separatorLine,
       HeaderLineI("Original Message"), HeaderLineI("Message d'origine"),
       HeaderLineI("Forwarded message") >>

\* the loops `result = result.replace(pattern, replacement)` from pattern k on
RECURSIVE ReplaceEach(_, _, _)
ReplaceEach(pats, result, k) ==
    IF k > Len(pats) THEN result
    ELSE Let(ReplaceAll(pats[k].p, result, pats[k].ci, pats[k].repl), LAMBDA replaced :
             ReplaceEach(pats, replaced, k + 1))

\* /\n{3,}/g
blankLines == <<Rep(Cls({"\n"}), 3, 0, FALSE)>>

\* mutant of cleanThreadContent: the range patterns left out
cleanThreadContent_RangesKept(text) ==
    IF text = "" THEN ""
    ELSE Let(ReplaceEach(headerPatterns, text, 1), LAMBDA headed :
         Let(ReplaceAll(blankLines, headed, FALSE, Const("\n\n")), LAMBDA collapsed :
             Trim(stripSignature(collapsed, NoTemplate))))

cleanThreadContent(text) ==
    IF text = "" THEN ""
    ELSE Let(ReplaceEach(rangePatterns, text, 1), LAMBDA ranged :
         Let(ReplaceEach(headerPatterns, ranged, 1), LAMBDA headed :
         Let(ReplaceAll(blankLines, headed, FALSE, Const("\n\n")), LAMBDA collapsed :
             Trim(stripSignature(collapsed, NoTemplate)))))

(***************************************************************************)
(* The DOM that `temp.innerHTML = html` builds (settings.js 528-529,       *)
(* 1072-1073) and its reading.  A node is an element (tag, attrs as        *)
(* written in the open tag, kids) or a text node (tag "#text", text).      *)
(* The parser reads the markup the modelled documents use: open tags with  *)
(* quoted attributes, end tags, void elements and text without entities.   *)
(***************************************************************************)
TextNode(t) == [tag |-> "#text", attrs |-> "", text |-> t, kids |-> <<>>]

Element(tag, attrs, kids) == [tag |-> tag, attrs |-> attrs, text |-> "", kids |-> kids]

VoidTags == {"hr", "br", "img"}

\* a "<" opens a tag when a letter or "/" follows it
IsTagOpen(s, i) ==
    /\ i < Len(s)
    /\ CharAt(s, i) = "<"
    /\ (LowerChar(CharAt(s, i + 1)) \in AZ \/ CharAt(s, i + 1) = "/")

\* the least member of a non-empty set of positions
Least(found) == CHOOSE k \in found : \A n \in found : k <= n

\* the position of the next tag at or after i; Len(s) + 1 when there is none
NextTag(s, i) ==
    Let({k \in i..Len(s) : IsTagOpen(s, k)}, LAMBDA found :
        IF found = {} THEN Len(s) + 1 ELSE Least(found))

\* the tag whose text between "<" and ">" is inner and whose ">" is at close:
\* its lowered name (with the "/" of an end tag), its attribute text
TagParts(inner, close) ==
    Let(IndexFrom(inner, " ", 1), LAMBDA sp :
        [name |-> ToLower(IF sp = 0 THEN inner ELSE SubSeq(inner, 1, sp - 1)),
         attrs |-> IF sp = 0 THEN "" ELSE SubSeq(inner, sp, Len(inner)),
         isEnd |-> CharAt(inner, 1) = "/",
         close |-> close])

\* the tag that opens at position i of s
TagAt(s, i) ==
    Let(IndexFrom(s, ">", i), LAMBDA gt :
        Let(IF gt = 0 THEN Len(s) ELSE gt, LAMBDA close :
            TagParts(SubSeq(s, i + 1, close - 1), close)))

\* the start tags that close an open p element
PClosers == {"div", "p", "ul", "ol", "hr", "table", "blockquote", "h1", "h2", "h3", "pre"}

InSeq(x, xs) == \E k \in 1..Len(xs) : xs[k] = x

\* the nodes from position i up to the tag that ends the innermost open
\* element (stack names the open elements, innermost last).  next is the
\* position parsing goes on from in the parent: after the end tag of the
\* element, or at the tag itself when it ends an outer element as well (a start
\* tag that closes a p, the end tag of an outer element).  An end tag </p>
\* without an open p makes an empty p element; another end tag without an
\* open element is dropped.
RECURSIVE ParseNodes(_, _, _, _)
RECURSIVE ParseTag(_, _, _, _, _, _)
ParseNodes(s, i, acc, stack) ==
    IF i > Len(s) THEN [nodes |-> acc, next |-> i]
    ELSE IF ~IsTagOpen(s, i)
    THEN Let(NextTag(s, i + 1), LAMBDA n :
             ParseNodes(s, n, Append(acc, TextNode(SubSeq(s, i, n - 1))), stack))
    ELSE ParseTag(s, i, acc, stack, TagAt(s, i),
                  IF Len(stack) = 0 THEN "" ELSE stack[Len(stack)])

\* the nodes from the tag at position i on, top being the innermost open
\* element
ParseTag(s, i, acc, stack, tag, top) ==
    IF tag.isEnd
    THEN Let(SubSeq(tag.name, 2, Len(tag.name)), LAMBDA ended :
             IF ended = top THEN [nodes |-> acc, next |-> tag.close + 1]
             ELSE IF InSeq(ended, stack) THEN [nodes |-> acc, next |-> i]
             ELSE IF ended = "p"
             THEN ParseNodes(s, tag.close + 1, Append(acc, Element("p", "", <<>>)), stack)
             ELSE ParseNodes(s, tag.close + 1, acc, stack))
    ELSE IF top = "p" /\ tag.name \in PClosers THEN [nodes |-> acc, next |-> i]
    ELSE IF tag.name \in VoidTags
    THEN ParseNodes(s, tag.close + 1, Append(acc, Element(tag.name, tag.attrs, <<>>)), stack)
    ELSE Let(ParseNodes(s, tag.close + 1, <<>>, Append(stack, tag.name)), LAMBDA sub :
             ParseNodes(s, sub.next, Append(acc, Element(tag.name, tag.attrs, sub.nodes)), stack))

\* the children of temp after `temp.innerHTML = html`
ParseHtml(html) == ParseNodes(html, 1, <<>>, <<>>).nodes

\* Node.textContent of a sequence of sibling nodes
RECURSIVE TextContent(_)
TextContent(nodes) ==
    IF Len(nodes) = 0 THEN ""
    ELSE (IF nodes[1].tag = "#text" THEN nodes[1].text ELSE TextContent(nodes[1].kids))
         \o TextContent(Tail(nodes))

\* Element.outerHTML of a node
RECURSIVE Serialize(_)
OuterHtml(n) ==
    IF n.tag = "#text" THEN n.text
    ELSE "<" \o n.tag \o n.attrs \o ">" \o
         (IF n.tag \in VoidTags THEN "" ELSE Serialize(n.kids) \o "</" \o n.tag \o ">")

\* Element.innerHTML of a container holding the nodes
Serialize(nodes) ==
    IF Len(nodes) = 0 THEN "" ELSE OuterHtml(nodes[1]) \o Serialize(Tail(nodes))

\* the elements below and including the nodes, in document order
RECURSIVE Elements(_)
Elements(nodes) ==
    IF Len(nodes) = 0 THEN <<>>
    ELSE (IF nodes[1].tag = "#text" THEN <<>> ELSE <<nodes[1]>> \o Elements(nodes[1].kids))
         \o Elements(Tail(nodes))

\* the elements of the tree in document order, each with the index of the
\* child of temp that is or contains it
RECURSIVE DocOrder(_, _)
DocOrder(roots, r) ==
    IF r > Len(roots) THEN <<>>
    ELSE Let(Elements(<<roots[r]>>), LAMBDA els :
             [i \in 1..Len(els) |-> [node |-> els[i], root |-> r]] \o DocOrder(roots, r + 1))

\* the value of attribute name in the attribute text of an open tag: <<>>
\* when the attribute is absent, <<value>> otherwise
AttrValue(attrs, name) ==
    Let(IndexFrom(attrs, " " \o name \o "=\"", 1), LAMBDA k :
        IF k = 0 THEN <<>>
        ELSE <<SubSeq(attrs, k + Len(name) + 3,
                      IndexFrom(attrs, "\"", k + Len(name) + 3) - 1)>>)

HasAttr(attrs, name) ==
    \/ AttrValue(attrs, name) # <<>>
    \/ EndsWith(attrs, " " \o name)
    \/ Includes(attrs, " " \o name \o " ")

\* the class names of a class attribute value
RECURSIVE SplitSpaces(_)
SplitSpaces(s) ==
    Let(IndexFrom(s, " ", 1), LAMBDA k :
        IF k = 0 THEN {s} \ {""}
        ELSE ({SubSeq(s, 1, k - 1)} \ {""}) \cup SplitSpaces(SubSeq(s, k + 1, Len(s))))

\* Selectors: #id, .class, tag, tag[attr="value"], [attr]
ById(id) == [kind |-> "id", tag |-> "", name |-> id, value |-> ""]

ByClass(c) == [kind |-> "class", tag |-> "", name |-> c, value |-> ""]

ByTag(t) == [kind |-> "tag", tag |-> t, name |-> "", value |-> ""]

ByTagAttr(t, a, v) == [kind |-> "tagattr", tag |-> t, name |-> a, value |-> v]

ByAttr(a) == [kind |-> "attr", tag |-> "", name |-> a, value |-> ""]

HasClass(value, name) == value # <<>> /\ name \in SplitSpaces(value[1])

Matches(node, sel) ==
    CASE sel.kind = "id" -> AttrValue(node.attrs, "id") = <<sel.name>>
      [] sel.kind = "class" -> HasClass(AttrValue(node.attrs, "class"), sel.name)
      [] sel.kind = "tag" -> node.tag = sel.tag
      [] sel.kind = "tagattr" ->
            node.tag = sel.tag /\ AttrValue(node.attrs, sel.name) = <<sel.value>>
      [] sel.kind = "attr" -> HasAttr(node.attrs, sel.name)

\* the index in els of the first element from index i on that matches the
\* selector; 0 when none does
RECURSIVE FirstMatch(_, _, _)
FirstMatch(els, sel, i) ==
    IF i > Len(els) THEN 0
    ELSE IF Matches(els[i].node, sel) THEN i
    ELSE FirstMatch(els, sel, i + 1)

\* mutant of FirstOfSelectors: the first element of the document that matches
\* any of the selectors
FirstOfSelectors_DocumentOrder(els, sels, k) ==
    Let({i \in 1..Len(els) : \E n \in k..Len(sels) : Matches(els[i].node, sels[n])},
        LAMBDA found : IF found = {} THEN 0 ELSE Least(found))

\* Element.querySelector over a list of selectors tried in order (the loop
\* `for (const selector of ...) { ...; if (found) break; }`)
RECURSIVE FirstOfSelectors(_, _, _)
FirstOfSelectors(els, sels, k) ==
    IF k > Len(sels) THEN 0
    ELSE Let(FirstMatch(els, sels[k], 1), LAMBDA found :
             IF found # 0 THEN found ELSE FirstOfSelectors(els, sels, k + 1))

(***************************************************************************)
(* The thread locator shared by parseEmailHtml (settings.js 531-569) and   *)
(* extractPreservedContent (1079-1108)                                     *)
(***************************************************************************)
threadMarkers ==
    << ById("divRplyFwdMsg"), ById("x_divRplyFwdMsg"), ByClass("gmail_quote"),
       ById("appendonsend"), ByTagAttr("hr", "tabindex", "-1"),
       ByClass("ms-MessageBody"), ByTag("blockquote") >>

\* /From:.*Sent:/i, /De\s*:.*Envoyé/i, /Von:.*Gesendet/i,
\* /---------- Original Message ----------/i
threadHeaderPatterns ==
    << LitI("From:") \o Star(Dot) \o LitI("Sent:"),
       LitI("De") \o Star(Cls(WhiteSpace)) \o Lit(":") \o Star(Dot) \o LitI("Envoyé"),
       LitI("Von:") \o Star(Dot) \o LitI("Gesendet"),
       Lit("---------- original message ----------") >>

IsThreadHeader(text) ==
    \E k \in 1..Len(threadHeaderPatterns) : Test(threadHeaderPatterns[k], text, TRUE)

\* querySelectorAll with a list of tag names: the matching elements in
\* document order
SelectTags(els, tags) == SelectSeq(els, LAMBDA e : e.node.tag \in tags)

\* the text of an element
ElText(node) == TextContent(node.kids)

\* the first element from index i on whose text holds a thread header
RECURSIVE FirstHeader(_, _)
FirstHeader(els, i) ==
    IF i > Len(els) THEN 0
    ELSE IF IsThreadHeader(ElText(els[i].node)) THEN i
    ELSE FirstHeader(els, i + 1)

\* the child of temp that is or contains element i of els; 0 when i is 0
RootOf(els, i) == IF i = 0 THEN 0 ELSE els[i].root

\* the header scan over the div, p and font elements (553-569, 1092-1108)
HeaderRoot(blocks) == RootOf(blocks, FirstHeader(blocks, 1))

\* the marker loop (540-550, 1079-1089) and, when it finds nothing, the
\* header scan
MarkerOrHeaderRoot(els) ==
    Let(FirstOfSelectors(els, threadMarkers, 1), LAMBDA m :
        IF m # 0 THEN els[m].root ELSE HeaderRoot(SelectTags(els, {"div", "p", "font"})))

\* the index of the child of temp that is or contains threadElement after
\* the marker loop and the header scan; 0 when threadElement is null
ThreadRoot(roots) == MarkerOrHeaderRoot(DocOrder(roots, 1))

(***************************************************************************)
(* parseEmailHtml (settings.js 527-606)                                    *)
(***************************************************************************)
\* the locator of parseEmailHtml: the first hr when nothing else is found
MarkerHeaderOrRule(els) ==
    Let(MarkerOrHeaderRoot(els), LAMBDA r :
        IF r # 0 THEN r ELSE RootOf(els, FirstMatch(els, ByTag("hr"), 1)))

ThreadRootOrRule(roots) == MarkerHeaderOrRule(DocOrder(roots, 1))

\* mutant of SplitAt: the texts as they are read, not trimmed
SplitAt_Untrimmed(roots, r) ==
    IF r # 0
    THEN [currentMessage |-> TextContent(SubSeq(roots, 1, r - 1)),
          threadContent |-> TextContent(SubSeq(roots, r, Len(roots)))]
    ELSE [currentMessage |-> TextContent(roots), threadContent |-> ""]

\* mutant of SplitAt: the thread is the block of the thread start alone
SplitAt_StartBlockOnly(roots, r) ==
    IF r # 0
    THEN [currentMessage |-> Trim(TextContent(SubSeq(roots, 1, r - 1))),
          threadContent |-> Trim(TextContent(SubSeq(roots, r, r)))]
    ELSE [currentMessage |-> Trim(TextContent(roots)), threadContent |-> ""]

\* the two texts, the thread starting at child r of temp
SplitAt(roots, r) ==
    IF r # 0
    THEN [currentMessage |-> Trim(TextContent(SubSeq(roots, 1, r - 1))),
          threadContent |-> Trim(TextContent(SubSeq(roots, r, Len(roots))))]
    ELSE [currentMessage |-> Trim(TextContent(roots)), threadContent |-> ""]

parseEmailHtml(html) ==
    Let(ParseHtml(html), LAMBDA roots : SplitAt(roots, ThreadRootOrRule(roots)))

(***************************************************************************)
(* extractPreservedContent (settings.js 1071-1239)                         *)
(***************************************************************************)
signatureMarkers ==
    << ById("Signature"), ByClass("Signature"), ById("ms-outlook-mobile-signature"),
       ByAttr("data-signature") >>

\* /^Best regards/im ... /^MfG/im
signaturePhraseWords ==
    << "Best regards", "Kind regards", "Regards", "Sincerely", "Thanks", "Thank you",
       "Cheers", "Cordialement", "Cdlt", "Mit freundlichen Grüßen", "MfG" >>

\* /^--\s*$/m
signatureDashes == Bol \o Lit("--") \o Star(Cls(WhiteSpace)) \o Eol

HasSignaturePhrase(text) ==
    \/ \E k \in 1..Len(signaturePhraseWords) :
          Test(Bol \o LitI(signaturePhraseWords[k]), text, TRUE)
    \/ Test(signatureDashes, text, FALSE)

\* the children of temp the signature is searched in, the thread not being
\* removed
RemainingRoots_ThreadKept(roots, r) == roots

\* the children of temp left after the thread nodes are removed (1136-1142)
RemainingRoots(roots, r) == IF r = 0 THEN roots ELSE SubSeq(roots, 1, r - 1)

\* the last element at or before index i whose trimmed text is longer than 5
\* and is contained in the template (1169-1178)
RECURSIVE LastInTemplate(_, _, _)
LastInTemplate(els, template, i) ==
    IF i = 0 THEN 0
    ELSE Let(Trim(ElText(els[i].node)), LAMBDA elText :
             IF Len(elText) > MinTemplateLen /\ Includes(template, elText) THEN i
             ELSE LastInTemplate(els, template, i - 1))

\* the first element from index i on whose text holds a signature phrase
RECURSIVE FirstPhraseElement(_, _)
FirstPhraseElement(els, i) ==
    IF i > Len(els) THEN 0
    ELSE IF HasSignaturePhrase(ElText(els[i].node)) THEN i
    ELSE FirstPhraseElement(els, i + 1)

\* the phrase scan over the div and p elements (1183-1208)
PhraseRoot(pblocks) == RootOf(pblocks, FirstPhraseElement(pblocks, 1))

\* the template scan over the div, p and table elements (1160-1180) and, when
\* it finds nothing, the phrase scan
TemplateOrPhraseRoot(els, tblocks, template) ==
    Let(IF template # NoTemplate /\ Len(template[1]) > MinTemplateLen
        THEN LastInTemplate(tblocks, template[1], Len(tblocks)) ELSE 0, LAMBDA t :
        IF t # 0 THEN tblocks[t].root ELSE PhraseRoot(SelectTags(els, {"div", "p"})))

\* the marker loop (1146-1157) and, when it finds nothing, the two scans
SignatureRootIn(els, template) ==
    Let(FirstOfSelectors(els, signatureMarkers, 1), LAMBDA m :
        IF m # 0 THEN els[m].root
        ELSE TemplateOrPhraseRoot(els, SelectTags(els, {"div", "p", "table"}), template))

\* the index in rest of the child of temp that is or contains
\* signatureElement; 0 when signatureElement is null
SignatureRoot(rest, template) == SignatureRootIn(DocOrder(rest, 1), template)

\* the fragments, the signature starting at child g of rest
SignatureFrom(rest, g) == IF g = 0 THEN "" ELSE Serialize(SubSeq(rest, g, Len(rest)))

\* the fragments, the thread starting at child r of temp
PreservedAt(roots, r, rest, template) ==
    [signatureHtml |-> SignatureFrom(rest, SignatureRoot(rest, template)),
     threadHtml |-> IF r = 0 THEN "" ELSE Serialize(SubSeq(roots, r, Len(roots)))]

PreservedIn(roots, r, template) == PreservedAt(roots, r, RemainingRoots(roots, r), template)

\* template is the value of initialBodyTemplate at the call
extractPreservedContent(html, template) ==
    Let(ParseHtml(html), LAMBDA roots : PreservedIn(roots, ThreadRoot(roots), template))

(***************************************************************************)
(* addOutlookStyles (settings.js 1247-1258)                                *)
(***************************************************************************)
ParagraphStyle == "<p style=\"margin-top: 0; margin-bottom: 15px;\">"

addOutlookStyles(html) ==
    IF html = "" THEN html
    ELSE Let(ReplaceAll(Lit("<p>"), html, TRUE, Const(ParagraphStyle)), LAMBDA p1 :
         Let(ReplaceAll(Lit("<ul>"), p1, TRUE, Const("<ul style=\"margin-bottom: 15px;\">")), LAMBDA p2 :
             ReplaceAll(Lit("<ol>"), p2, TRUE, Const("<ol style=\"margin-bottom: 15px;\">"))))

(***************************************************************************)
(* formatBodyForInsert (settings.js 1266-1375)                             *)
(***************************************************************************)
\* /<[a-z][\s\S]*>/i
htmlTagPattern == Lit("<") \o One(Cls(AZ)) \o Star(AnyChar) \o Lit(">")

\* /\*\*(.+?)\*\*/g and /__(.+?)__/g
boldPattern(mark) ==
    Lit(mark) \o Lit(mark) \o GroupStart \o PlusLazy(Dot) \o GroupEnd \o Lit(mark) \o Lit(mark)

\* /(?<!\*)\*(?!\*)(.+?)(?<!\*)\*(?!\*)/g and /(?<!_)_(?!_)(.+?)(?<!_)_(?!_)/g
italicPattern(mark) ==
    NotBehind(Cls({mark})) \o Lit(mark) \o NotAhead(Cls({mark})) \o
    GroupStart \o PlusLazy(Dot) \o GroupEnd \o
    NotBehind(Cls({mark})) \o Lit(mark) \o NotAhead(Cls({mark}))

\* the inline pass (1276-1285)
InlineMarkdown(body) ==
    Let(ReplaceAll(boldPattern("*"), body, FALSE, Wrap("<strong>", "</strong>")), LAMBDA b1 :
    Let(ReplaceAll(italicPattern("*"), b1, FALSE, Wrap("<em>", "</em>")), LAMBDA b2 :
    Let(ReplaceAll(boldPattern("_"), b2, FALSE, Wrap("<strong>", "</strong>")), LAMBDA b3 :
        ReplaceAll(italicPattern("_"), b3, FALSE, Wrap("<em>", "</em>")))))

\* /^[-*]\s+(.+)$/
unorderedPattern ==
    Bol \o One(Cls({"-", "*"})) \o Plus(Cls(WhiteSpace)) \o
    GroupStart \o Plus(Dot) \o GroupEnd \o Eol

\* /^\d+\.\s+(.+)$/
orderedPattern ==
    Bol \o Plus(Cls(Digits)) \o Lit(".") \o Plus(Cls(WhiteSpace)) \o
    GroupStart \o Plus(Dot) \o GroupEnd \o Eol

\* String.prototype.match of a line (which holds no line break): <<>> when
\* there is no match, <<group 1>> otherwise
LineMatch(p, line) ==
    Let(MatchFrom(p, 1, line, 1, [NoMatch EXCEPT !.start = 1]), LAMBDA r :
        IF r.ok THEN <<SubSeq(line, r.gs, r.ge - 1)>> ELSE <<>>)

LastOf(out) == out[Len(out)]

EndsBlock(str) == EndsWith(str, "</p>") \/ EndsWith(str, "</ul>") \/ EndsWith(str, "</ol>")

\* the lists closed before a line of the other kind: ul when closeUl, ol
\* when closeOl
CloseLists(out, closeUl, closeOl) ==
    out \o (IF closeUl THEN <<"</ul>">> ELSE <<>>) \o (IF closeOl THEN <<"</ol>">> ELSE <<>>)

\* a line that is no list item, the lists being closed (1332-1355)
TextLine(out, line) ==
    IF line = ""
    THEN IF Len(out) > 0 /\ ~EndsWith(LastOf(out), "</p>") THEN Append(out, "</p><p>") ELSE out
    ELSE IF Len(out) = 0 \/ EndsBlock(LastOf(out)) THEN Append(out, "<p>" \o line)
    ELSE IF LastOf(out) = "</p><p>" THEN [out EXCEPT ![Len(out)] = "</p><p>" \o line]
    ELSE Append([out EXCEPT ![Len(out)] = LastOf(out) \o "</p>"], "<p>" \o line)

\* the loop over the lines from line i on (1293-1357) and the closing of the
\* open list after it (1360-1361)
RECURSIVE ProcessLines(_, _, _, _, _)
RECURSIVE ProcessLine(_, _, _, _, _, _, _, _)
ProcessLines(lines, i, out, inUnorderedList, inOrderedList) ==
    IF i > Len(lines) THEN CloseLists(out, inUnorderedList, inOrderedList)
    ELSE Let(Trim(lines[i]), LAMBDA line :
             ProcessLine(lines, i, out, inUnorderedList, inOrderedList, line,
                         LineMatch(unorderedPattern, line), LineMatch(orderedPattern, line)))

\* one turn of the loop, on the trimmed line i
ProcessLine(lines, i, out, inUnorderedList, inOrderedList, line, unorderedMatch, orderedMatch) ==
    IF unorderedMatch # <<>>
    THEN ProcessLines(lines, i + 1,
             CloseLists(out, FALSE, inOrderedList)
                 \o (IF inUnorderedList THEN <<>> ELSE <<"<ul>">>)
                 \o <<"<li>" \o unorderedMatch[1] \o "</li>">>,
             TRUE, FALSE)
    ELSE IF orderedMatch # <<>>
    THEN ProcessLines(lines, i + 1,
             CloseLists(out, inUnorderedList, FALSE)
                 \o (IF inOrderedList THEN <<>> ELSE <<"<ol>">>)
                 \o <<"<li>" \o orderedMatch[1] \o "</li>">>,
             FALSE, TRUE)
    ELSE ProcessLines(lines, i + 1,
             TextLine(CloseLists(out, inUnorderedList, inOrderedList), line),
             FALSE, FALSE)

\* the end of the markdown path (1363-1374)
FinishMarkdown(result) ==
    IF Includes(result, "<p>") /\ ~EndsBlock(result) THEN result \o "</p>"
    ELSE IF ~Includes(result, "<p>") /\ ~Includes(result, "<ul>") /\ ~Includes(result, "ol>")
    THEN addOutlookStyles("<p>" \o result \o "</p>")
    ELSE addOutlookStyles(result)

\* the markdown path from the inline pass on (1273-1374)
MarkdownToHtml(body) ==
    Let(InlineMarkdown(body), LAMBDA html :
    Let(Join(ProcessLines(SplitLines(html), 1, <<>>, FALSE, FALSE), ""), LAMBDA result :
        FinishMarkdown(result)))

IsHtmlBody(body) == Test(htmlTagPattern, body, TRUE)

formatBodyForInsert(body) ==
    IF IsHtmlBody(body) THEN addOutlookStyles(body) ELSE MarkdownToHtml(body)

(***************************************************************************)
(* JavaScript values as JSON.parse builds them (settings.js 857) and as    *)
(* displayResults reads them (879-902).  A value has a type, the text of a *)
(* string, number or boolean, and the members of an object or array.       *)
(***************************************************************************)
JsValue(type, str, fields) == [type |-> type, str |-> str, fields |-> fields]

Undefined == JsValue("undefined", "", <<>>)

JsNull == JsValue("null", "", <<>>)

JsString(str) == JsValue("string", str, <<>>)

JsObject(fields) == JsValue("object", "", fields)

Member(key, value) == [key |-> key, value |-> value]

JsonSpace == {" ", "\n", "\t"}

\* the position of the first character at or after i that is no white space
SkipSpace(s, i) == i + RunLen(s, i, Cls(JsonSpace), Len(s))

ParseFailed == [ok |-> FALSE, value |-> Undefined, next |-> 0]

Parsed(value, next) == [ok |-> TRUE, value |-> value, next |-> next]

\* the characters of a string literal from position i on, up to the closing
\* quote; the escapes \" \\ \/ \n \t are decoded, a raw control character or
\* another escape is a syntax error
RECURSIVE ParseChars(_, _, _)
ParseChars(s, i, acc) ==
    IF i > Len(s) \/ CharAt(s, i) \in {"\n", "\t"} THEN ParseFailed
    ELSE IF CharAt(s, i) = "\"" THEN Parsed(JsString(acc), i + 1)
    ELSE IF CharAt(s, i) = "\\"
    THEN LET c == CharAt(s, i + 1)
         IN  IF i + 1 > Len(s) THEN ParseFailed
             ELSE IF c \in {"\"", "\\", "/"} THEN ParseChars(s, i + 2, acc \o c)
             ELSE IF c = "n" THEN ParseChars(s, i + 2, acc \o "\n")
             ELSE IF c = "t" THEN ParseChars(s, i + 2, acc \o "\t")
             ELSE ParseFailed
    ELSE ParseChars(s, i + 1, acc \o CharAt(s, i))

\* a number -?(0|[1-9][0-9]*)(.[0-9]+)? at position i
ParseNumber(s, i) ==
    LET from == IF CharAt(s, i) = "-" THEN i + 1 ELSE i
        int == RunLen(s, from, Cls(Digits), Len(s))
        dot == from + int
        frac == IF dot <= Len(s) /\ CharAt(s, dot) = "." THEN RunLen(s, dot + 1, Cls(Digits), Len(s)) ELSE -1
        end == IF frac = -1 THEN dot ELSE dot + 1 + frac
    IN  IF int = 0 \/ frac = 0 \/ (int > 1 /\ CharAt(s, from) = "0") THEN ParseFailed
        ELSE Parsed(JsValue("number", SubSeq(s, i, end - 1), <<>>), end)

Closer(keyed) == IF keyed THEN "}" ELSE "]"

Collection(keyed, members) == JsValue(IF keyed THEN "object" ELSE "array", "", members)

RECURSIVE ParseValue(_, _)
RECURSIVE ParseMembers(_, _, _, _)
RECURSIVE ParseKeyed(_, _, _)
RECURSIVE AfterMember(_, _, _, _, _)
\* the members of an object (keyed) or the elements of an array from position
\* i on, i being after the opening bracket or after a comma
ParseMembers(s, i, acc, keyed) ==
    Let(SkipSpace(s, i), LAMBDA k :
        IF k <= Len(s) /\ CharAt(s, k) = Closer(keyed) /\ acc = <<>>
        THEN Parsed(Collection(keyed, <<>>), k + 1)
        ELSE IF keyed THEN ParseKeyed(s, k, acc)
        ELSE AfterMember(s, acc, FALSE, "", ParseValue(s, k)))

\* a member of an object from its key at position k on
ParseKeyed(s, k, acc) ==
    IF CharAt(s, k) # "\"" THEN ParseFailed
    ELSE Let(ParseChars(s, k + 1, ""), LAMBDA key :
         IF ~key.ok THEN ParseFailed
         ELSE Let(SkipSpace(s, key.next), LAMBDA colon :
              IF CharAt(s, colon) # ":" THEN ParseFailed
              ELSE AfterMember(s, acc, TRUE, key.value.str,
                               ParseValue(s, SkipSpace(s, colon + 1)))))

\* what follows the value v of a member or element: the closing bracket, or
\* a comma and another member
AfterMember(s, acc, keyed, key, v) ==
    IF ~v.ok THEN ParseFailed
    ELSE Let(SkipSpace(s, v.next), LAMBDA after :
         IF after > Len(s) THEN ParseFailed
         ELSE IF CharAt(s, after) = Closer(keyed)
         THEN Parsed(Collection(keyed, Append(acc, Member(key, v.value))), after + 1)
         ELSE IF CharAt(s, after) = "," /\ SkipSpace(s, after + 1) <= Len(s)
                 /\ CharAt(s, SkipSpace(s, after + 1)) # Closer(keyed)
         THEN ParseMembers(s, after + 1, Append(acc, Member(key, v.value)), keyed)
         ELSE ParseFailed)

ParseValue(s, i) ==
    IF i > Len(s) THEN ParseFailed
    ELSE IF StartsAt(s, i, "null") THEN Parsed(JsNull, i + 4)
    ELSE IF StartsAt(s, i, "true") THEN Parsed(JsValue("boolean", "true", <<>>), i + 4)
    ELSE IF StartsAt(s, i, "false") THEN Parsed(JsValue("boolean", "false", <<>>), i + 5)
    ELSE IF CharAt(s, i) = "\"" THEN ParseChars(s, i + 1, "")
    ELSE IF CharAt(s, i) = "{" THEN ParseMembers(s, i + 1, <<>>, TRUE)
    ELSE IF CharAt(s, i) = "[" THEN ParseMembers(s, i + 1, <<>>, FALSE)
    ELSE IF CharAt(s, i) = "-" \/ CharAt(s, i) \in Digits THEN ParseNumber(s, i)
    ELSE ParseFailed

\* JSON.parse: ok is FALSE when it throws a SyntaxError
JsonParse(text) ==
    Let(ParseValue(text, SkipSpace(text, 1)), LAMBDA r :
        IF r.ok /\ SkipSpace(text, r.next) = Len(text) + 1 THEN [ok |-> TRUE, value |-> r.value]
        ELSE [ok |-> FALSE, value |-> Undefined])

\* reading a property of null or undefined throws a TypeError
ThrowsOnRead(v) == v.type \in {"null", "undefined"}

\* v[name] for name in {"subject", "body"}: the last member of that key of
\* an object, undefined for an object without it and for a primitive or array
Prop(v, name) ==
    LET hits == {k \in 1..Len(v.fields) : v.fields[k].key = name}
    IN  IF v.type # "object" \/ hits = {} THEN Undefined
        ELSE v.fields[CHOOSE k \in hits : \A h \in hits : h <= k].value

\* ToBoolean
Truthy(v) ==
    CASE v.type \in {"undefined", "null"} -> FALSE
      [] v.type = "string" -> v.str # ""
      [] v.type = "boolean" -> v.str = "true"
      [] v.type = "number" -> CharsOf(v.str) \cap (Digits \ {"0"}) # {}
      [] OTHER -> TRUE

(***************************************************************************)
(* getProvider (llm-providers.js 171-189) over the stored settings         *)
(* (storage.js 51-76): the active provider, whether settings.providers has *)
(* an entry for it, and the API key of that entry                          *)
(***************************************************************************)
ProviderSettings(active, configured, apiKey) ==
    [activeProvider |-> active, configured |-> configured, apiKey |-> apiKey]

\* the value of getProviderSettings() when nothing is stored
DefaultSettings == ProviderSettings("openai", TRUE, "")

KnownProviders == {"openai", "custom", "claude", "gemini"}

\* mutant of ProviderError: getProvider without its checks
ProviderError_Unchecked(set) == <<>>

\* <<>> when getProvider returns a provider, <<message>> when it throws
ProviderError(set) ==
    IF ~set.configured THEN <<"Cannot read properties of undefined (reading 'apiKey')">>
    ELSE IF set.apiKey = ""
    THEN <<"No API key configured for " \o set.activeProvider \o ". Please configure in settings.">>
    ELSE IF set.activeProvider \notin KnownProviders
    THEN <<"Unknown provider: " \o set.activeProvider>>
    ELSE <<>>

(***************************************************************************)
(* State of a task pane session (settings.js 393-399 and the elements of   *)
(* 415-432), of the host's compose item, and of the calls in flight        *)
(***************************************************************************)
VARIABLES
    hostBody,               \* the HTML body of the compose item
    hostSubject,            \* its subject
    settings,               \* the stored provider settings
    currentEmailBody,
    currentEmailBodyHtml,
    currentThreadContent,
    initialBodyTemplate,    \* NoTemplate for null
    currentResult,
    vendorText,             \* <<>> or <<result>>: what the last `await processText` returned
    instruction,            \* elements.instruction.value
    includeThreadToggle,    \* elements.includeThreadToggle.checked
    processBtnDisabled,     \* elements.processBtn.disabled
    loading,                \* the .btn-loading part of the button is displayed
    statusActive,           \* the status dot has class active
    errorShown,             \* elements.errorMessage is displayed
    errorText,              \* elements.errorMessage.textContent
    resultShown,            \* elements.resultSection is displayed
    subjectCardShown,
    bodyCardShown,
    toast,                  \* the text of the last success toast
    pendingCaptures,        \* body.getAsync calls of captureEmailBody without callback yet
    requests,               \* the processText calls awaited
    replaces,               \* the replace actions started, each with its stage
    subjectWrites,          \* the subject.setAsync calls without callback yet
    edits,                  \* the number of edits of the user so far
    processes,              \* the number of clicks on the process button so far
    processLimit,           \* the number of clicks on it a session is followed for
    savedPrompts,           \* the localStorage item of the saved prompts: NoItem or <<list>>
    idsGenerated,           \* the number of calls of generateId so far
    promptCalls,            \* the number of calls of the promptManager followed so far
    fnName,                 \* the function a function-level specification applies
    fnArgs,                 \* its arguments
    fnResult                \* <<>> before the call, <<value>> after it

storeVars == <<settings, savedPrompts, idsGenerated, promptCalls>>

hostVars == <<hostBody, hostSubject, storeVars>>

captureVars == <<currentEmailBody, currentEmailBodyHtml, currentThreadContent, initialBodyTemplate, statusActive>>

resultVars == <<currentResult, vendorText, resultShown, subjectCardShown, bodyCardShown>>

errorVars == <<errorShown, errorText>>

inputVars == <<instruction, includeThreadToggle>>

buttonVars == <<processBtnDisabled, loading>>

asyncVars == <<pendingCaptures, requests, replaces, subjectWrites>>

countVars == <<edits, processes, processLimit>>

sessionVars ==
    <<hostVars, captureVars, resultVars, errorVars, inputVars, buttonVars, toast, asyncVars, countVars>>

fnVars == <<fnName, fnArgs, fnResult>>

vars == <<sessionVars, fnVars>>

\* the number of clicks on the process button a session is followed for
MaxProcesses == 1

\* `let currentResult = { subject: '', body: '' }` (398, 1384)
EmptyResult == JsObject(<<Member("subject", JsString("")), Member("body", JsString(""))>>)

(***************************************************************************)
(* The saved prompts (prompt-manager.js 7-98, storage.js 12-33, 91-101).   *)
(* A prompt is a record of id, name and instruction.  The localStorage     *)
(* item holds the JSON text of the list; JSON.stringify and JSON.parse     *)
(* give back the same list for records of three strings, so the item is    *)
(* kept as the list itself.  Operations return the item written, the       *)
(* number of ids generated and the value returned.                         *)
(***************************************************************************)
\* localStorage.getItem gives null: nothing was stored under the key
NoItem == <<>>

\* storage.getSavedPrompts: `this.get('saved_prompts') || []`
getSavedPrompts(item) == IF item = NoItem THEN <<>> ELSE item[1]

\* storage.setSavedPrompts: the item after the write
setSavedPrompts(prompts) == <<prompts>>

\* generateId: 122 random bits; the values of Math.random are taken to give
\* an id that was not generated before, the n-th one is named after n
generateId(n) == "id-" \o ToString(n + 1)

PromptResult(item, ids, ret) == [item |-> item, ids |-> ids, ret |-> ret]

\* promptManager.add
add(item, ids, name, instr) ==
    LET prompts   == getSavedPrompts(item)
        newPrompt == [id |-> generateId(ids), name |-> Trim(name), instruction |-> Trim(instr)]
    IN  PromptResult(setSavedPrompts(Append(prompts, newPrompt)), ids + 1, newPrompt)

\* prompts.findIndex(p => p.id === id): 0 for -1, otherwise the 1-based index
findIndex(prompts, id) ==
    LET hits == {i \in 1..Len(prompts) : prompts[i].id = id}
    IN  IF hits = {} THEN 0 ELSE CHOOSE i \in hits : \A j \in hits : i <= j

\* mutant of update: the fields stored as they were passed
update_Untrimmed(item, ids, id, name, instr) ==
    LET prompts == getSavedPrompts(item)
        index   == findIndex(prompts, id)
    IN  IF index = 0
        THEN PromptResult(item, ids, FALSE)
        ELSE PromptResult(setSavedPrompts([prompts EXCEPT ![index] =
                              [@ EXCEPT !.name = name, !.instruction = instr]]),
                          ids, TRUE)

\* promptManager.update
update(item, ids, id, name, instr) ==
    LET prompts == getSavedPrompts(item)
        index   == findIndex(prompts, id)
    IN  IF index = 0
        THEN PromptResult(item, ids, FALSE)
        ELSE PromptResult(setSavedPrompts([prompts EXCEPT ![index] =
                              [@ EXCEPT !.name = Trim(name), !.instruction = Trim(instr)]]),
                          ids, TRUE)

\* prompts.filter(p => p.id !== id)
WithoutId(prompts, id) ==
    LET keep(p) == p.id # id IN SelectSeq(prompts, keep)

\* promptManager.delete
delete(item, ids, id) ==
    LET prompts  == getSavedPrompts(item)
        filtered == WithoutId(prompts, id)
    IN  IF Len(filtered) = Len(prompts)
        THEN PromptResult(item, ids, FALSE)
        ELSE PromptResult(setSavedPrompts(filtered), ids, TRUE)

\* the names and instructions initDefaults adds, in its order
DefaultPrompts ==
    << <<"Fix Grammar", "Fix any grammatical errors in this text while maintaining the original meaning and tone.">>,
       <<"Make Professional", "Rewrite this text to be more professional and formal while keeping the same message.">>,
       <<"Summarize", "Provide a brief, concise summary of this text.">>,
       <<"Translate to French", "Translate this text to French.">>,
       <<"Make Friendly", "Rewrite this text to be warmer and more friendly while keeping the same message.">> >>

\* the calls of this.add in initDefaults from the k-th on
RECURSIVE AddDefaults(_, _, _)
AddDefaults(item, ids, k) ==
    IF k > Len(DefaultPrompts)
    THEN PromptResult(item, ids, <<>>)
    ELSE LET r == add(item, ids, DefaultPrompts[k][1], DefaultPrompts[k][2])
         IN  AddDefaults(r.item, r.ids, k + 1)

\* mutant of initDefaults: the defaults added whatever is stored
initDefaults_Always(item, ids) == AddDefaults(item, ids, 1)

\* promptManager.initDefaults
initDefaults(item, ids) ==
    IF Len(getSavedPrompts(item)) = 0
    THEN AddDefaults(item, ids, 1)
    ELSE PromptResult(item, ids, <<>>)

\* initializeApp of the task pane on a first run: promptManager.initDefaults()
\* finds nothing stored
PromptsInitialized ==
    /\ savedPrompts = initDefaults(NoItem, 0).item
    /\ idsGenerated = initDefaults(NoItem, 0).ids
    /\ promptCalls = 0


\* the session after initializeApp: the globals as declared, captures being
\* the body reads already issued
SessionState(body, set, toggle, disabled, captures) ==
    /\ hostBody = body
    /\ hostSubject = ""
    /\ settings = set
    /\ currentEmailBody = ""
    /\ currentEmailBodyHtml = ""
    /\ currentThreadContent = ""
    /\ initialBodyTemplate = NoTemplate
    /\ currentResult = EmptyResult
    /\ vendorText = <<>>
    /\ instruction = ""
    /\ includeThreadToggle = toggle
    /\ processBtnDisabled = disabled
    /\ loading = FALSE
    /\ statusActive = FALSE
    /\ errorShown = FALSE
    /\ errorText = ""
    /\ resultShown = FALSE
    /\ subjectCardShown = FALSE
    /\ bodyCardShown = FALSE
    /\ toast = ""
    /\ pendingCaptures = captures
    /\ requests = <<>>
    /\ replaces = <<>>
    /\ subjectWrites = <<>>
    /\ edits = 0
    /\ processes = 0

\* the session of a function-level specification: no session runs
SessionIdle ==
    /\ SessionState("", DefaultSettings, FALSE, TRUE, 0)
    /\ processLimit = MaxProcesses
    /\ PromptsInitialized

NoCall == fnName = "" /\ fnArgs = <<>> /\ fnResult = <<>>

Called(name) == fnName = name /\ fnResult # <<>>

(***************************************************************************)
(* The handlers of the task pane (settings.js 486-520, 830-920,            *)
(* 1019-1064, 1380-1386, 1418-1431)                                        *)
(***************************************************************************)
\* updateProcessButtonState: the value of processBtn.disabled
ButtonDisabled(body, instr) == ~(Len(Trim(body)) > 0 /\ Len(Trim(instr)) > 0)

\* mutant of NextTemplate: an empty template counts as not captured
NextTemplate_Falsy(template, message) ==
    IF template = NoTemplate \/ template = <<"">> THEN <<Trim(message)>> ELSE template

\* `if (initialBodyTemplate === null) initialBodyTemplate = parsed.currentMessage.trim()`
NextTemplate(template, message) ==
    IF template = NoTemplate THEN <<Trim(message)>> ELSE template

\* mutant of BuildContext: the thread text appended whatever the toggle says
BuildContext_ToggleIgnored ==
    currentEmailBody \o
        (IF currentThreadContent # ""
         THEN "\n\n--- Previous Thread ---\n" \o currentThreadContent ELSE "")

\* the context handleProcess builds (847-850)
BuildContext ==
    currentEmailBody \o
        (IF includeThreadToggle /\ currentThreadContent # ""
         THEN "\n\n--- Previous Thread ---\n" \o currentThreadContent ELSE "")

\* the object of the catch around JSON.parse (858-864)
RawResult(text) == JsObject(<<Member("subject", JsString("")), Member("body", JsString(text))>>)

\* the result handleProcess keeps of the text processText returned (856-864)
ParseResult(text) ==
    Let(JsonParse(text), LAMBDA parsed : IF parsed.ok THEN parsed.value ELSE RawResult(text))

\* displayResults on a result with the two properties read from it
DisplayOf(cr, subject, body) ==
    IF ThrowsOnRead(cr)
    THEN [threw |-> TRUE, message |-> "Cannot read properties of null (reading 'subject')",
          subjectCard |-> subjectCardShown, bodyCard |-> bodyCardShown,
          resultSection |-> resultShown]
    ELSE IF Truthy(body) /\ body.type \notin {"string", "array"}
    THEN [threw |-> TRUE, message |-> "currentResult.body.includes is not a function",
          subjectCard |-> Truthy(subject), bodyCard |-> bodyCardShown,
          resultSection |-> resultShown]
    ELSE [threw |-> FALSE, message |-> "",
          subjectCard |-> Truthy(subject), bodyCard |-> Truthy(body),
          resultSection |-> TRUE]

\* displayResults on result cr: whether it throws and with which message,
\* and the display of the two cards and of the result section after it
displayResults(cr) == DisplayOf(cr, Prop(cr, "subject"), Prop(cr, "body"))

\* mutant of ReconstructedBody: the thread before the signature
ReconstructedBody_ThreadFirst(newBodyContent, preserved) ==
    newBodyContent \o preserved.threadHtml \o preserved.signatureHtml

\* the body handleReplaceBody writes (1039-1047)
ReconstructedBody(newBodyContent, preserved) ==
    newBodyContent \o preserved.signatureHtml \o preserved.threadHtml

\* remove element k of a sequence
Without(xs, k) == SubSeq(xs, 1, k - 1) \o SubSeq(xs, k + 1, Len(xs))

(***************************************************************************)
(* Bounds and inputs of a session                                          *)
(***************************************************************************)
MaxEdits == 1

MaxPendingCaptures == 1

MaxReplaces == 1

MaxSubjectWrites == 1

\* the compose body when the task pane opens: empty, a signature, or a
\* signature above the quoted thread of a reply
ComposeBodies ==
    { "",
      "<div>Bob Smith</div><div>Acme Corp</div>",
      "<div>Bob Smith, Acme</div><div id=\"divRplyFwdMsg\"><font>From: Al Sent: Monday</font></div><div>Old text</div>" }

\* what the user types above the rest of the body
TypedBlocks == {"<div>Hi Al, fine with me</div>"}

Instructions == {"", "Make it formal"}

SettingsChoices ==
    { ProviderSettings("openai", TRUE, "sk-1"), DefaultSettings,
      ProviderSettings("mistral", FALSE, ""), ProviderSettings("mistral", TRUE, "sk-2") }

\* the content of a vendor response; the providers return '{}' for an empty one
VendorContents ==
    { "Hello Al",
      "{\"subject\":\"Re: Plan\",\"body\":\"Hi **Al**\"}",
      "{\"body\":\"<p>Hi Al</p>\"}",
      "null", "7", "{}", "" }

VendorErrors == {"OpenAI API error: 500"}

HostErrors == {"Internal error"}

(***************************************************************************)
(* The actions of a session                                                *)
(***************************************************************************)
\* the user types a block above the body
UserEdit ==
    /\ edits < MaxEdits
    /\ \E block \in TypedBlocks : hostBody' = block \o hostBody
    /\ edits' = edits + 1
    /\ UNCHANGED <<hostSubject, storeVars, captureVars, resultVars, errorVars, inputVars,
                   buttonVars, toast, asyncVars, processes, processLimit, fnVars>>

\* the interval of startAutoRefresh fires: captureEmailBody issues a read
TimerTick ==
    /\ pendingCaptures < MaxPendingCaptures
    /\ pendingCaptures' = pendingCaptures + 1
    /\ UNCHANGED <<hostVars, captureVars, resultVars, errorVars, inputVars, buttonVars, toast,
                   requests, replaces, subjectWrites, countVars, fnVars>>

\* the user flips the thread toggle: its change handler issues a read
ToggleChange ==
    /\ pendingCaptures < MaxPendingCaptures
    /\ includeThreadToggle' = ~includeThreadToggle
    /\ pendingCaptures' = pendingCaptures + 1
    /\ UNCHANGED <<hostVars, captureVars, resultVars, errorVars, instruction, buttonVars, toast,
                   requests, replaces, subjectWrites, countVars, fnVars>>

\* the assignments of the callback of captureEmailBody (497-513), body being
\* the message without its signature
KeepCapture(parsed, template, body) ==
    /\ currentEmailBodyHtml' = hostBody
    /\ initialBodyTemplate' = template
    /\ currentEmailBody' = body
    /\ currentThreadContent' =
           IF includeThreadToggle THEN cleanThreadContent(parsed.threadContent) ELSE ""
    /\ statusActive' = (Len(body) > 0)
    /\ processBtnDisabled' = ButtonDisabled(body, instruction)

\* mutant of CaptureWith: the message stripped without the template
CaptureWith_TemplateUnused(parsed, template) ==
    KeepCapture(parsed, template, stripSignature(parsed.currentMessage, NoTemplate))

\* the callback from the template on
CaptureWith(parsed, template) ==
    KeepCapture(parsed, template, stripSignature(parsed.currentMessage, template))

\* the callback from the parsed body on
CaptureParsed(parsed) ==
    CaptureWith(parsed, NextTemplate(initialBodyTemplate, parsed.currentMessage))

\* mutant of CaptureSucceeded: the callback writing the body it kept from
\* the read before back to the item
CaptureSucceeded_WritesBack ==
    /\ pendingCaptures > 0
    /\ pendingCaptures' = pendingCaptures - 1
    /\ CaptureParsed(parseEmailHtml(hostBody))
    /\ hostBody' = currentEmailBodyHtml
    /\ UNCHANGED <<hostSubject, storeVars, resultVars, errorVars, inputVars, loading, toast,
                   requests, replaces, subjectWrites, countVars, fnVars>>

\* the callback of captureEmailBody with status Succeeded
CaptureSucceeded ==
    /\ pendingCaptures > 0
    /\ pendingCaptures' = pendingCaptures - 1
    /\ CaptureParsed(parseEmailHtml(hostBody))
    /\ UNCHANGED <<hostVars, resultVars, errorVars, inputVars, loading, toast,
                   requests, replaces, subjectWrites, countVars, fnVars>>

\* mutant of CaptureFailed: the callback going on with an empty body when
\* the status is not Succeeded
CaptureFailed_EmptyBodyKept ==
    /\ pendingCaptures > 0
    /\ pendingCaptures' = pendingCaptures - 1
    /\ currentEmailBodyHtml' = ""
    /\ initialBodyTemplate' = NextTemplate(initialBodyTemplate, "")
    /\ currentEmailBody' = ""
    /\ currentThreadContent' = ""
    /\ statusActive' = FALSE
    /\ processBtnDisabled' = TRUE
    /\ UNCHANGED <<hostVars, resultVars, errorVars, inputVars, loading, toast,
                   requests, replaces, subjectWrites, countVars, fnVars>>

\* the callback of captureEmailBody with another status
CaptureFailed ==
    /\ pendingCaptures > 0
    /\ pendingCaptures' = pendingCaptures - 1
    /\ UNCHANGED <<hostVars, captureVars, resultVars, errorVars, inputVars, buttonVars, toast,
                   requests, replaces, subjectWrites, countVars, fnVars>>

\* the user changes the instruction: the input handler
InstructionInput ==
    /\ \E text \in Instructions \ {instruction} :
          /\ instruction' = text
          /\ processBtnDisabled' = ButtonDisabled(currentEmailBody, text)
    /\ UNCHANGED <<hostVars, captureVars, resultVars, errorVars, includeThreadToggle, loading,
                   toast, asyncVars, countVars, fnVars>>

\* a click on the enabled process button, getProvider returning a provider:
\* handleProcess up to its await
ProcessClick ==
    /\ ~processBtnDisabled
    /\ processes < processLimit
    /\ ProviderError(settings) = <<>>
    /\ processes' = processes + 1
    /\ errorShown' = FALSE
    /\ loading' = TRUE
    /\ processBtnDisabled' = TRUE
    /\ requests' = Append(requests, [context |-> BuildContext, instruction |-> Trim(instruction)])
    /\ UNCHANGED <<hostVars, captureVars, resultVars, errorText, inputVars, toast,
                   pendingCaptures, replaces, subjectWrites, edits, processLimit, fnVars>>

\* a click on the enabled process button, getProvider throwing: handleProcess
\* with its catch and finally
ProcessClickUnconfigured ==
    /\ ~processBtnDisabled
    /\ processes < processLimit
    /\ ProviderError(settings) # <<>>
    /\ processes' = processes + 1
    /\ errorShown' = TRUE
    /\ errorText' = ProviderError(settings)[1]
    /\ loading' = FALSE
    /\ processBtnDisabled' = ButtonDisabled(currentEmailBody, instruction)
    /\ UNCHANGED <<hostVars, captureVars, resultVars, inputVars, toast, asyncVars, edits, processLimit, fnVars>>

\* mutant of ShowResult: setLoading(false) after displayResults, no finally
ShowResult_NoFinally(text, cr, shown) ==
    /\ vendorText' = <<text>>
    /\ currentResult' = cr
    /\ subjectCardShown' = shown.subjectCard
    /\ bodyCardShown' = shown.bodyCard
    /\ resultShown' = shown.resultSection
    /\ errorShown' = (errorShown \/ shown.threw)
    /\ errorText' = IF shown.threw THEN shown.message ELSE errorText
    /\ loading' = IF shown.threw THEN loading ELSE FALSE
    /\ processBtnDisabled' =
           IF shown.threw THEN processBtnDisabled ELSE ButtonDisabled(currentEmailBody, instruction)

\* handleProcess after displayResults: its catch when that threw, its finally
ShowResult(text, cr, shown) ==
    /\ vendorText' = <<text>>
    /\ currentResult' = cr
    /\ subjectCardShown' = shown.subjectCard
    /\ bodyCardShown' = shown.bodyCard
    /\ resultShown' = shown.resultSection
    /\ errorShown' = (errorShown \/ shown.threw)
    /\ errorText' = IF shown.threw THEN shown.message ELSE errorText
    /\ loading' = FALSE
    /\ processBtnDisabled' = ButtonDisabled(currentEmailBody, instruction)

\* handleProcess from the assignment of currentResult on
KeepResult(text, cr) == ShowResult(text, cr, displayResults(cr))

\* handleProcess from its await on, processText returning text
HandleResponse(text) == KeepResult(text, ParseResult(text))

\* the vendor answers request k
VendorReplied ==
    \E k \in 1..Len(requests), content \in VendorContents :
        /\ requests' = Without(requests, k)
        /\ HandleResponse(IF content = "" THEN "{}" ELSE content)
        /\ UNCHANGED <<hostVars, captureVars, inputVars, toast, pendingCaptures, replaces,
                       subjectWrites, countVars, fnVars>>

\* mutant of VendorFailed: the catch of handleProcess resetting the result
VendorFailed_ResultReset ==
    \E k \in 1..Len(requests), message \in VendorErrors :
        /\ requests' = Without(requests, k)
        /\ vendorText' = <<>>
        /\ currentResult' = EmptyResult
        /\ errorShown' = TRUE
        /\ errorText' = message
        /\ loading' = FALSE
        /\ processBtnDisabled' = ButtonDisabled(currentEmailBody, instruction)
        /\ UNCHANGED <<hostVars, captureVars, resultShown, subjectCardShown,
                       bodyCardShown, inputVars, toast, pendingCaptures, replaces,
                       subjectWrites, countVars, fnVars>>

\* request k fails: the catch and finally of handleProcess
VendorFailed ==
    \E k \in 1..Len(requests), message \in VendorErrors :
        /\ requests' = Without(requests, k)
        /\ vendorText' = <<>>
        /\ errorShown' = TRUE
        /\ errorText' = message
        /\ loading' = FALSE
        /\ processBtnDisabled' = ButtonDisabled(currentEmailBody, instruction)
        /\ UNCHANGED <<hostVars, captureVars, currentResult, resultShown, subjectCardShown,
                       bodyCardShown, inputVars, toast, pendingCaptures, replaces,
                       subjectWrites, countVars, fnVars>>

\* a click on the replace button of the result section, the result having a
\* body string that is not empty: handleReplaceBody up to its read
ReplaceClick ==
    /\ resultShown
    /\ Len(replaces) < MaxReplaces
    /\ ~ThrowsOnRead(currentResult)
    /\ Prop(currentResult, "body").type = "string"
    /\ Truthy(Prop(currentResult, "body"))
    /\ replaces' = Append(replaces,
           [stage |-> "read", source |-> Prop(currentResult, "body").str,
            newBodyContent |-> formatBodyForInsert(Prop(currentResult, "body").str),
            fullHtml |-> "", template |-> NoTemplate, body |-> ""])
    /\ UNCHANGED <<hostVars, captureVars, resultVars, errorVars, inputVars, buttonVars, toast,
                   pendingCaptures, requests, subjectWrites, countVars, fnVars>>

\* the read of replace k succeeds: the body is rebuilt and its write issued
ReplaceReadSucceeded ==
    \E k \in 1..Len(replaces) :
        /\ replaces[k].stage = "read"
        /\ replaces' = [replaces EXCEPT ![k] =
               [replaces[k] EXCEPT
                   !.stage = "write", !.fullHtml = hostBody, !.template = initialBodyTemplate,
                   !.body = ReconstructedBody(replaces[k].newBodyContent,
                                extractPreservedContent(hostBody, initialBodyTemplate))]]
        /\ UNCHANGED <<hostVars, captureVars, resultVars, errorVars, inputVars, buttonVars, toast,
                       pendingCaptures, requests, subjectWrites, countVars, fnVars>>

\* the read of replace k fails
ReplaceReadFailed ==
    \E k \in 1..Len(replaces) :
        /\ replaces[k].stage = "read"
        /\ replaces' = [replaces EXCEPT ![k].stage = "readFailed"]
        /\ errorShown' = TRUE
        /\ errorText' = "Failed to read current email body"
        /\ UNCHANGED <<hostVars, captureVars, resultVars, inputVars, buttonVars, toast,
                       pendingCaptures, requests, subjectWrites, countVars, fnVars>>

\* the write of replace k succeeds: the host holds the body, then showSuccess
\* and hideResults
ReplaceWriteSucceeded ==
    \E k \in 1..Len(replaces) :
        /\ replaces[k].stage = "write"
        /\ replaces' = [replaces EXCEPT ![k].stage = "done"]
        /\ hostBody' = replaces[k].body
        /\ toast' = "Body replaced!"
        /\ resultShown' = FALSE
        /\ instruction' = ""
        /\ currentResult' = EmptyResult
        /\ processBtnDisabled' = ButtonDisabled(currentEmailBody, "")
        /\ UNCHANGED <<hostSubject, storeVars, captureVars, vendorText, subjectCardShown,
                       bodyCardShown, errorVars, includeThreadToggle, loading,
                       pendingCaptures, requests, subjectWrites, countVars, fnVars>>

\* mutant of ReplaceWriteFailed: the failure branch calling hideResults as
\* the success branch does
ReplaceWriteFailed_ResultsHidden ==
    \E k \in 1..Len(replaces), message \in HostErrors :
        /\ replaces[k].stage = "write"
        /\ replaces' = [replaces EXCEPT ![k].stage = "writeFailed"]
        /\ errorShown' = TRUE
        /\ errorText' = "Failed to replace: " \o message
        /\ resultShown' = FALSE
        /\ instruction' = ""
        /\ currentResult' = EmptyResult
        /\ processBtnDisabled' = ButtonDisabled(currentEmailBody, "")
        /\ UNCHANGED <<hostVars, captureVars, vendorText, subjectCardShown, bodyCardShown,
                       includeThreadToggle, loading, toast,
                       pendingCaptures, requests, subjectWrites, countVars, fnVars>>

\* the write of replace k fails
ReplaceWriteFailed ==
    \E k \in 1..Len(replaces), message \in HostErrors :
        /\ replaces[k].stage = "write"
        /\ replaces' = [replaces EXCEPT ![k].stage = "writeFailed"]
        /\ errorShown' = TRUE
        /\ errorText' = "Failed to replace: " \o message
        /\ UNCHANGED <<hostVars, captureVars, resultVars, inputVars, buttonVars, toast,
                       pendingCaptures, requests, subjectWrites, countVars, fnVars>>

\* a click on the insert-subject button of the result section, the result
\* having a subject string that is not empty: handleInsertSubject
InsertSubjectClick ==
    /\ resultShown
    /\ Len(subjectWrites) < MaxSubjectWrites
    /\ ~ThrowsOnRead(currentResult)
    /\ Prop(currentResult, "subject").type = "string"
    /\ Truthy(Prop(currentResult, "subject"))
    /\ subjectWrites' = Append(subjectWrites, Prop(currentResult, "subject").str)
    /\ UNCHANGED <<hostVars, captureVars, resultVars, errorVars, inputVars, buttonVars, toast,
                   pendingCaptures, requests, replaces, countVars, fnVars>>

SubjectWriteSucceeded ==
    /\ Len(subjectWrites) > 0
    /\ hostSubject' = Head(subjectWrites)
    /\ subjectWrites' = Tail(subjectWrites)
    /\ toast' = "Subject inserted!"
    /\ UNCHANGED <<hostBody, storeVars, captureVars, resultVars, errorVars, inputVars, buttonVars,
                   pendingCaptures, requests, replaces, countVars, fnVars>>

SubjectWriteFailed ==
    \E message \in HostErrors :
        /\ Len(subjectWrites) > 0
        /\ subjectWrites' = Tail(subjectWrites)
        /\ errorShown' = TRUE
        /\ errorText' = "Failed to insert subject: " \o message
        /\ UNCHANGED <<hostVars, captureVars, resultVars, inputVars, buttonVars, toast,
                       pendingCaptures, requests, replaces, countVars, fnVars>>

\* the session when initializeApp returns: its first read of the body is
\* issued; the toggle and the button are as the task pane's page has them
Init ==
    /\ \E body \in ComposeBodies, set \in SettingsChoices, toggle \in BOOLEAN, disabled \in BOOLEAN :
          SessionState(body, set, toggle, disabled, 1)
    /\ processLimit = MaxProcesses
    /\ PromptsInitialized
    /\ NoCall

Next ==
    \/ UserEdit
    \/ TimerTick
    \/ ToggleChange
    \/ CaptureSucceeded
    \/ CaptureFailed
    \/ InstructionInput
    \/ ProcessClick
    \/ ProcessClickUnconfigured
    \/ VendorReplied
    \/ VendorFailed
    \/ ReplaceClick
    \/ ReplaceReadSucceeded
    \/ ReplaceReadFailed
    \/ ReplaceWriteSucceeded
    \/ ReplaceWriteFailed
    \/ InsertSubjectClick
    \/ SubjectWriteSucceeded
    \/ SubjectWriteFailed

Spec == Init /\ [][Next]_vars

(***************************************************************************)
(* Claims about a session                                                  *)
(***************************************************************************)
\* C1: whatever captures, process actions and replace actions a session
\* takes, the signature template is written once, by the first successful
\* capture (from the text that capture reads before the thread), and every
\* later step leaves its value unchanged, the empty string included.
C1_TemplateWrittenOnce ==
    [][ /\ initialBodyTemplate # NoTemplate => initialBodyTemplate' = initialBodyTemplate
        /\ initialBodyTemplate' # initialBodyTemplate =>
              /\ pendingCaptures' = pendingCaptures - 1
              /\ currentEmailBodyHtml' = hostBody
              /\ initialBodyTemplate' = <<parseEmailHtml(hostBody).currentMessage>>
        /\ CaptureSucceeded => initialBodyTemplate' # NoTemplate ]_vars

\* C1's case: the first capture read an empty body, and a later capture of
\* a body with text left the empty template in place
C1_Witness ==
    /\ initialBodyTemplate = <<"">>
    /\ currentEmailBody # ""
    /\ currentEmailBodyHtml = hostBody

\* the body of replace action op, put together as the claim has it
InFixedOrder(op, preserved) ==
    formatBodyForInsert(op.source) \o preserved.signatureHtml \o preserved.threadHtml

\* C4: the body a replace action writes to the compose item is the
\* formatted new body, then signatureHtml, then threadHtml (the fragments
\* taken from the document the action read), an empty fragment adding
\* nothing.
C4_BodyInFixedOrder ==
    [][ \A k \in 1..Len(replaces) :
            (replaces[k].stage = "write" /\ replaces'[k].stage = "done") =>
                hostBody' = InFixedOrder(replaces[k],
                                extractPreservedContent(replaces[k].fullHtml, replaces[k].template)) ]_vars

\* both fragments of the document op read hold markup
BothFragments(preserved) == preserved.signatureHtml # "" /\ preserved.threadHtml # ""

\* C4's case: a replace action wrote a body over a document with a
\* signature and a thread, and the compose item holds it
C4_Witness ==
    \E k \in 1..Len(replaces) :
        /\ replaces[k].stage = "done"
        /\ toast = "Body replaced!"
        /\ hostBody = replaces[k].body
        /\ BothFragments(extractPreservedContent(replaces[k].fullHtml, replaces[k].template))

\* the response text is not JSON, or is JSON that is no object or an object
\* with neither a subject nor a body
LacksFields(parsed) ==
    \/ ~parsed.ok
    \/ parsed.value.type # "object"
    \/ (Prop(parsed.value, "subject") = Undefined /\ Prop(parsed.value, "body") = Undefined)

\* C6: when the vendor's response text is not JSON, or is JSON without the
\* subject and body fields (null, a number, a string, an object without
\* them), the process action ends with the result {subject: "", body: the
\* raw text} and shows no error.
C6_RawTextFallback ==
    [][ (Len(requests') < Len(requests) /\ vendorText' # <<>> /\ LacksFields(JsonParse(vendorText'[1])))
            => (currentResult' = RawResult(vendorText'[1]) /\ UNCHANGED errorVars) ]_vars

(***************************************************************************)
(* SpecRepeat: a session on one compose body that is followed for one more *)
(* click on the process button than Spec follows, so that a request is     *)
(* made while the result of an earlier one is stored                       *)
(***************************************************************************)
InitRepeat ==
    /\ \E set \in {ProviderSettings("openai", TRUE, "sk-1"), DefaultSettings},
          toggle \in BOOLEAN, disabled \in BOOLEAN :
          SessionState("", set, toggle, disabled, 1)
    /\ processLimit = MaxProcesses + 1
    /\ PromptsInitialized
    /\ NoCall

SpecRepeat == InitRepeat /\ [][Next]_vars

\* the active provider has no API key
NoApiKey == ~settings.configured \/ settings.apiKey = ""

\* the name of the active provider is not one getProvider knows
UnknownProvider == settings.activeProvider \notin {"openai", "custom", "claude", "gemini"}

\* a step that is a process action
ProcessAction == processes' = processes + 1

\* C17: a process action with no API key for the active provider, or with a
\* provider name that is not known, issues no request and shows an error
\* message.
C17_FailsBeforeRequest ==
    [][(ProcessAction /\ (NoApiKey \/ UnknownProvider)) =>
           /\ requests' = requests
           /\ errorShown' /\ errorText' # ""
           /\ ~loading'
           /\ UNCHANGED <<hostVars, currentResult>>]_vars

\* C17's case: a process action was taken with a key stored for a provider
\* name that is not known, and its error is on screen
C17_Witness ==
    /\ processes = 1
    /\ UnknownProvider /\ ~NoApiKey
    /\ errorShown /\ errorText = "Unknown provider: mistral"
    /\ requests = <<>>

\* a step in which a vendor request is issued
RequestIssued == Len(requests') > Len(requests)

\* a step in which a vendor request ends in a transport error or a status
\* that is not OK
RequestFailed == Len(requests') < Len(requests) /\ vendorText' = <<>>

\* C18: a process action issues at most one vendor request and nothing else
\* issues one; when a request fails one error is reported, no request is
\* issued in its place, and the stored completion result is left as it was.
C18_OneRequestOneError ==
    [][/\ ProcessAction => Len(requests') <= Len(requests) + 1
       /\ RequestIssued => ProcessAction
       /\ RequestFailed =>
              /\ Len(requests') = Len(requests) - 1
              /\ errorShown' /\ errorText' \in VendorErrors
              /\ currentResult' = currentResult
              /\ processes' = processes]_vars

\* C18's case: the second request of a session has failed while the result
\* of the first was stored, and the error is on screen
C18_Witness ==
    /\ processes = 2
    /\ requests = <<>>
    /\ vendorText = <<>>
    /\ errorShown /\ errorText \in VendorErrors
    /\ currentResult # EmptyResult
    /\ resultShown

FailedStages == {"readFailed", "writeFailed"}

\* a step in which replace k fails, at its read or at its write
ReplaceFails(k) == replaces[k].stage \notin FailedStages /\ replaces'[k].stage \in FailedStages

\* a step in which the write of replace k succeeds
ReplaceWritten(k) ==
    /\ replaces[k].stage = "write"
    /\ replaces'[k].stage = "done"
    /\ hostBody' = replaces[k].body

\* C19: when a replace fails at its read or at its write the error is shown,
\* the document is left as it is, no write follows the failed read and no
\* second write the failed write, and the stored result and the instruction
\* are kept; a replace clears them only when its write has succeeded.
C19_FailedReplaceKeepsAll ==
    [][\A k \in 1..Len(replaces) :
          /\ ReplaceFails(k) =>
                 /\ errorShown' /\ errorText' # ""
                 /\ UNCHANGED <<hostBody, hostSubject, currentResult, instruction, resultShown>>
          /\ replaces[k].stage \in FailedStages => replaces'[k] = replaces[k]
          /\ (replaces'[k] # replaces[k] /\ <<currentResult, instruction>>' # <<currentResult, instruction>>) =>
                 /\ ReplaceWritten(k)
                 /\ currentResult' = EmptyResult /\ instruction' = ""]_vars

\* C19's case: the host has rejected the write of a replace; the error is
\* shown and the result and the instruction are still there
C19_Witness ==
    /\ \E k \in 1..Len(replaces) : replaces[k].stage = "writeFailed"
    /\ errorShown /\ errorText = "Failed to replace: Internal error"
    /\ resultShown /\ instruction # ""
    /\ Truthy(Prop(currentResult, "body"))
    /\ hostBody # ""

\* a step of a capture: its read is issued or its callback runs
CaptureStep == pendingCaptures' # pendingCaptures

\* a step in which the user types in the compose window
UserTypes == edits' = edits + 1

\* a step in which the write of the insert-subject action succeeds
SubjectWritten ==
    /\ subjectWrites # <<>>
    /\ hostSubject' = Head(subjectWrites)
    /\ subjectWrites' = Tail(subjectWrites)

\* C20: a capture never writes to the document.  Apart from the user's own
\* typing the body changes only in the write of a replace and the subject
\* only in the write of an insert-subject; a step of a capture leaves the
\* document, the result, the instruction, the error and the pending requests
\* and writes as they are.
C20_CaptureReadOnly ==
    [][/\ hostBody' # hostBody => (UserTypes \/ \E k \in 1..Len(replaces) : ReplaceWritten(k))
       /\ hostSubject' # hostSubject => SubjectWritten
       /\ CaptureStep =>
              UNCHANGED <<hostBody, hostSubject, settings, resultVars, errorVars, instruction,
                          loading, toast, requests, replaces, subjectWrites>>]_vars

\* C20's case: captures have set the draft text, the thread text and the
\* template while nothing was written to the document
C20_Witness ==
    /\ pendingCaptures = 0
    /\ initialBodyTemplate # NoTemplate
    /\ currentEmailBody # ""
    /\ currentThreadContent # ""
    /\ currentEmailBodyHtml = hostBody
    /\ hostSubject = "" /\ replaces = <<>> /\ subjectWrites = <<>>

\* the text the claim expects a process action to send
DraftWithThread ==
    IF includeThreadToggle /\ currentThreadContent # ""
    THEN currentEmailBody \o "\n\n--- Previous Thread ---\n" \o currentThreadContent
    ELSE currentEmailBody

\* C21: the context of a request is the stored draft text at the moment the
\* process action starts, followed by the stored thread text only when the
\* toggle is checked at that moment and the thread text is not empty; no
\* later step, a capture that completes during the request included, changes
\* the context of a request in flight.
C21_ContextFixedAtStart ==
    [][/\ RequestIssued =>
              /\ SubSeq(requests', 1, Len(requests)) = requests
              /\ requests'[Len(requests')].context = DraftWithThread
       /\ ~RequestIssued =>
              \A k \in 1..Len(requests') : \E n \in 1..Len(requests) : requests'[k] = requests[n]]_vars

\* C21's case: a request that was sent with the thread text is in flight,
\* and a capture that completed after it has emptied the stored thread text
C21_Witness ==
    /\ Len(requests) = 1
    /\ pendingCaptures = 0
    /\ Includes(requests[1].context, "--- Previous Thread ---")
    /\ ~includeThreadToggle
    /\ currentThreadContent = ""
    /\ requests[1].context # DraftWithThread

\* C25: while a request is in flight the process button is disabled, and so
\* no second request is started before the first one has settled.
C25_ButtonDisabledInFlight ==
    /\ requests # <<>> => processBtnDisabled
    /\ Len(requests) <= 1

\* a step in which the first successful capture of the session completes
FirstCapture == initialBodyTemplate = NoTemplate /\ initialBodyTemplate' # NoTemplate

\* a step in which a capture completes on a body whose current-message text
\* is the text of the first capture, that text being longer than 5
CaptureOfTemplateOnly ==
    /\ pendingCaptures' = pendingCaptures - 1
    /\ currentEmailBodyHtml' = hostBody
    /\ initialBodyTemplate # NoTemplate
    /\ Len(initialBodyTemplate[1]) > 5
    /\ parseEmailHtml(hostBody).currentMessage = initialBodyTemplate[1]

\* C26: the first successful capture of a session, when the current-message
\* text it reads is longer than 5 characters, leaves the draft text empty and
\* the process button disabled; a later capture leaves the draft text empty
\* as long as the current-message text is that first text with nothing
\* before it.
C26_FirstTextIsNoDraft ==
    [][/\ (FirstCapture /\ Len(initialBodyTemplate'[1]) > 5) =>
              currentEmailBody' = "" /\ processBtnDisabled'
       /\ CaptureOfTemplateOnly => currentEmailBody' = ""]_vars

\* C26's case: the signature of the compose body was taken as the template,
\* an instruction is typed, and after the captures the draft text is empty
\* and the button disabled
C26_Witness ==
    /\ initialBodyTemplate = <<"Bob SmithAcme Corp">>
    /\ currentEmailBodyHtml = hostBody
    /\ edits = 0 /\ pendingCaptures = 0
    /\ instruction # ""
    /\ currentEmailBody = ""
    /\ processBtnDisabled
    /\ ~statusActive

(***************************************************************************)
(* SpecSettles: a session on one compose body in which every vendor call   *)
(* settles: the promise of fetch is fulfilled or rejected                  *)
(* (llm-providers.js 59, 82-89)                                            *)
(***************************************************************************)
InitSettles ==
    /\ \E set \in {ProviderSettings("openai", TRUE, "sk-1"), DefaultSettings},
          toggle \in BOOLEAN, disabled \in BOOLEAN :
          SessionState("", set, toggle, disabled, 1)
    /\ processLimit = MaxProcesses
    /\ PromptsInitialized
    /\ NoCall

SpecSettles == InitSettles /\ [][Next]_vars /\ WF_vars(VendorReplied \/ VendorFailed)

\* a step in which a vendor call settles
RequestSettles == Len(requests') < Len(requests)

CaptureCompletes == pendingCaptures' = pendingCaptures - 1

\* what a step shows when the read of the capture succeeded: the raw
\* snapshot is the body of the item and the template is set
CaptureRead == currentEmailBodyHtml' = hostBody /\ initialBodyTemplate' # NoTemplate

\* C28: a capture whose read fails changes nothing: the raw snapshot, the
\* draft text, the thread text and the template keep their values, as does
\* everything else; a capture that succeeds while the template was never
\* set, after failed ones as well, sets it.
C28_FailedCaptureNoChange ==
    [][/\ (CaptureCompletes /\ ~CaptureRead) =>
              UNCHANGED <<hostVars, captureVars, resultVars, errorVars, inputVars, buttonVars,
                          toast, requests, replaces, subjectWrites, countVars>>
       /\ (CaptureCompletes /\ initialBodyTemplate = NoTemplate
               /\ currentEmailBodyHtml' # currentEmailBodyHtml) =>
              initialBodyTemplate' = <<Trim(parseEmailHtml(hostBody).currentMessage)>>]_vars

\* C28's case: the only capture issued so far has completed on a body that
\* is not empty and nothing was stored: its read failed
C28_Witness ==
    /\ pendingCaptures = 0
    /\ hostBody # ""
    /\ initialBodyTemplate = NoTemplate
    /\ currentEmailBodyHtml = ""
    /\ currentEmailBody = "" /\ currentThreadContent = ""
    /\ ~statusActive /\ ~errorShown

(***************************************************************************)
(* SpecStrip: stripSignature applied to bounded texts.  A text is n lines  *)
(* of filler with the lines at positions a and b replaced by two of the    *)
(* special lines.                                                          *)
(***************************************************************************)
MaxLines == 9

FillerLine == "ok"

SpecialLines ==
    << "Best regards,", "Thanks,", "--", "Bob +1 555-123-4567", "www.acme.com",
       "bob@acme.org", "" >>

StripTemplates == {NoTemplate, <<"Bob +1 555-123-4567">>}

TextLines(n, a, ka, b, kb) ==
    [i \in 1..n |-> IF i = b THEN SpecialLines[kb]
                    ELSE IF i = a THEN SpecialLines[ka]
                    ELSE FillerLine]

\* stripSignature gets a trimmed text whenever it gets a template (line 506:
\* parsed.currentMessage is trimmed at line 603, the template at line 501)
StripInputs ==
    { [text |-> Join(TextLines(n, a, ka, b, kb), "\n"), template |-> t] :
        n \in 1..MaxLines, a \in 1..MaxLines, b \in 1..MaxLines,
        ka \in 1..Len(SpecialLines), kb \in 1..Len(SpecialLines), t \in StripTemplates }

InitStrip ==
    /\ SessionIdle
    /\ fnName = "stripSignature"
    /\ fnArgs \in {x \in StripInputs :
                      \/ x.template = NoTemplate
                      \/ Trim(x.text) = x.text /\ Includes(x.text, x.template[1])}
    /\ fnResult = <<>>

CallStripSignature ==
    /\ fnName = "stripSignature"
    /\ fnResult = <<>>
    /\ fnResult' = <<stripSignature(fnArgs.text, fnArgs.template)>>
    /\ UNCHANGED <<fnName, fnArgs, sessionVars>>

NextStrip == CallStripSignature

SpecStrip == InitStrip /\ [][NextStrip]_vars

(***************************************************************************)
(* Claims about stripSignature (checked under SpecStrip)                   *)
(***************************************************************************)
StripText == fnArgs.text

StripResult == fnResult[1]

IsPrefix(p, s) == Len(p) <= Len(s) /\ SubSeq(s, 1, Len(p)) = p

\* rule 1 of the specification: a template longer than 5 that the text ends with
RuleTemplate ==
    /\ fnArgs.template # NoTemplate
    /\ Len(fnArgs.template[1]) > 5
    /\ EndsWith(Trim(StripText), fnArgs.template[1])

ByTemplate == Trim(SubSeq(Trim(StripText), 1, Len(Trim(StripText)) - Len(fnArgs.template[1])))

\* where the separator line "--" starts in s (at its line break), 0 if nowhere
DashPos(s) == ExecFrom(dashPattern.p, s, 1).start

\* where closing phrase k first starts a line of s (at the line break before
\* it), read without regard to case; 0 if nowhere
PhrasePos(s, k) == IndexFrom(ToLower(s), ToLower("\n" \o closingPhrases[k]), 1)

PhrasesIn(s) == {k \in 1..Len(closingPhrases) : PhrasePos(s, k) > 0}

\* rule 2: the separator or a closing phrase occurs at a line start
RulePhrase == DashPos(Trim(StripText)) > 0 \/ PhrasesIn(Trim(StripText)) # {}

MinOf(S) == CHOOSE x \in S : \A y \in S : x <= y

MaxOf(S) == CHOOSE x \in S : \A y \in S : x >= y

ByPhrase ==
    LET s == Trim(StripText)
        cut == IF DashPos(s) > 0 THEN DashPos(s) ELSE PhrasePos(s, MinOf(PhrasesIn(s)))
    IN  Trim(SubSeq(s, 1, cut - 1))

\* the lines among the last 8 of the trimmed text that hold a phone number,
\* an e-mail address or a URL
ContactLines ==
    LET lines == SplitLines(Trim(StripText))
    IN  {i \in 1..Len(lines) : i > Len(lines) - 8 /\ HasContactInfo(Trim(lines[i]))}

BeforeLine(i) == Trim(Join(SubSeq(SplitLines(Trim(StripText)), 1, i - 1), "\n"))

\* rule 3: more than 3 lines, and a contact line among the last 8
RuleStructural == Len(SplitLines(Trim(StripText))) > 3 /\ ContactLines # {}

\* C7: for every text T and template S where T ends with S and len(S) > 5,
\* stripSignature(T, S) is T with the trailing S removed, trimmed.
C7_TemplateSuffixRemoved ==
    ( /\ Called("stripSignature")
      /\ fnArgs.template # NoTemplate
      /\ Len(fnArgs.template[1]) > 5
      /\ EndsWith(StripText, fnArgs.template[1]) )
    => StripResult = Trim(SubSeq(StripText, 1, Len(StripText) - Len(fnArgs.template[1])))

\* C7's case: the text ends with the template, holds a closing phrase before
\* it, and the draft that is left is not empty
C7_Witness ==
    /\ Called("stripSignature")
    /\ fnArgs.template # NoTemplate
    /\ EndsWith(StripText, fnArgs.template[1])
    /\ Includes(StripText, "\nThanks,\n")
    /\ StripResult # ""

\* C8: for every text T with a line "Best regards," followed by trailing
\* content, stripping without a matching template removes that line and
\* everything after it (the result is within the text before that line),
\* also when the line is the first line of T or when other closing phrases
\* or separators occur before or after it.
C8_BestRegardsRemoved ==
    \A i \in 1..Len(SplitLines(fnArgs.text)) :
        ( /\ Called("stripSignature")
          /\ ~RuleTemplate
          /\ SplitLines(StripText)[i] = "Best regards,"
          /\ \A j \in 1..(i - 1) : SplitLines(StripText)[j] # "Best regards,"
          /\ Trim(Join(SubSeq(SplitLines(StripText), i + 1, Len(SplitLines(StripText))), "\n")) # "" )
        => IsPrefix(StripResult, Trim(Join(SubSeq(SplitLines(StripText), 1, i - 1), "\n")))

\* C9: the three rules in strict priority order, the first that applies
\* decides the result; when none applies the result is the input, trimmed.
C9_RulePriority ==
    Called("stripSignature") =>
        StripResult = IF RuleTemplate THEN ByTemplate
                      ELSE IF RulePhrase THEN ByPhrase
                      ELSE IF RuleStructural THEN BeforeLine(MaxOf(ContactLines))
                      ELSE Trim(StripText)

\* C9's case: all three rules apply to the text and each would give another
\* result; the template rule decided
C9_Witness ==
    /\ Called("stripSignature")
    /\ RuleTemplate /\ RulePhrase /\ RuleStructural
    /\ ByTemplate # ByPhrase
    /\ ByPhrase # BeforeLine(MaxOf(ContactLines))
    /\ StripResult = ByTemplate

\* C10 as stated: when neither the template rule nor a closing phrase
\* matches, for text of any number of lines, a contact line among the last 8
\* lines cuts the text before the last such line; without one the text is kept.
C10_FallbackAnyLength ==
    (Called("stripSignature") /\ ~RuleTemplate /\ ~RulePhrase) =>
        StripResult = IF ContactLines # {} THEN BeforeLine(MaxOf(ContactLines))
                      ELSE Trim(StripText)

\* C10 amended: the same for text of more than 3 lines; text of at most 3
\* lines is kept whole (trimmed) whatever its lines hold.
C10_FallbackOverThreeLines ==
    (Called("stripSignature") /\ ~RuleTemplate /\ ~RulePhrase) =>
        StripResult = IF Len(SplitLines(Trim(StripText))) > 3 /\ ContactLines # {}
                      THEN BeforeLine(MaxOf(ContactLines))
                      ELSE Trim(StripText)

\* C10's case: a text of 9 lines with two contact lines, one of them before
\* the last 8 lines; the cut is before the later one
C10_Witness ==
    /\ Called("stripSignature") /\ ~RuleTemplate /\ ~RulePhrase
    /\ Len(SplitLines(Trim(StripText))) > 8
    /\ HasContactInfo(SplitLines(Trim(StripText))[1])
    /\ ContactLines # {}
    /\ StripResult = BeforeLine(MaxOf(ContactLines))
    /\ StripResult # ""

\* where entry k of the fixed list first occurs in s: entry 1 is the
\* separator line, entry k + 1 closing phrase k; 0 if nowhere
EntryPos(s, k) == IF k = 1 THEN DashPos(s) ELSE PhrasePos(s, k - 1)

\* the entries of the fixed list that occur in s
EntriesIn(s) == {k \in 1..(Len(closingPhrases) + 1) : EntryPos(s, k) > 0}

\* C23: when several entries of the fixed list occur in the text, the cut is
\* at the first occurrence of the entry that comes first in the list, not at
\* the entry that occurs earliest in the text, and no second entry is
\* applied to what is left.
C23_ScanOrderDecides ==
    (Called("stripSignature") /\ ~RuleTemplate /\ EntriesIn(Trim(StripText)) # {}) =>
        StripResult =
            Trim(SubSeq(Trim(StripText), 1,
                        EntryPos(Trim(StripText), MinOf(EntriesIn(Trim(StripText)))) - 1))

\* C23's case: "Thanks," occurs in the text before "Best regards,", which
\* comes first in the list; the cut is at "Best regards," and "Thanks," is
\* still in the result
C23_Witness ==
    /\ Called("stripSignature") /\ ~RuleTemplate
    /\ EntriesIn(Trim(StripText)) = {2, 6}
    /\ EntryPos(Trim(StripText), 6) < EntryPos(Trim(StripText), 2)
    /\ Includes(StripResult, "\nThanks,")
    /\ ~Includes(StripResult, "Best regards,")

(***************************************************************************)
(* SpecExtract: extractPreservedContent applied to compose documents.  A   *)
(* document is draft blocks, then signature blocks, then thread blocks,    *)
(* each run taken from a catalogue of root-level blocks; the template is   *)
(* what initialBodyTemplate can hold when the replace action runs.         *)
(***************************************************************************)
DraftChoices ==
    { <<>>,
      <<"<div>Hi there</div>">>,
      <<"<p>Hi <b>Al</b>,</p>", "<p>See you soon.</p>">>,
      <<"<div>Thanks, all good</div>">> }

SignatureChoices ==
    { <<>>,
      <<"<div>Bob Smith</div>">>,
      <<"<div>Bob Smith</div>", "<div>Acme Corp</div>">>,
      <<"<div id=\"Signature\"><p>Bob Smith</p><p>Acme Corp</p></div>">>,
      <<"<table><tbody><tr><td>Bob Smith, Acme</td></tr></tbody></table>">>,
      <<"<p>--</p>", "<p>Bob</p>">> }

ThreadChoices ==
    { <<>>,
      <<"<div id=\"divRplyFwdMsg\"><font>From: Al Sent: Monday</font></div>", "<div>Old text</div>">>,
      <<"<hr tabindex=\"-1\">", "<div>Old text</div>", "<div>Regards, Al</div>">>,
      <<"<blockquote>Old text</blockquote>">>,
      <<"<div><font>From: Al<br>Sent: Monday</font></div>", "<div>Old text</div>">>,
      <<"<div class=\"gmail_quote\">Al wrote:<blockquote>Thanks, Al</blockquote></div>">>,
      <<"<hr>", "<div>Old text</div>">> }

\* the text of a run of blocks as a capture reads it
BlocksText(blocks) == Trim(TextContent(ParseHtml(Join(blocks, ""))))

\* null before the first capture; otherwise the text the first capture read
\* before the thread: the signature of this document, an empty body, or the
\* signature of another document
TemplateChoices(sig) == {NoTemplate, <<"">>, <<BlocksText(sig)>>, <<"Bob SmithAcme Corp">>}

ExtractInputs ==
    { [draft |-> d, sig |-> g, thread |-> t, template |-> m] :
        d \in DraftChoices, g \in SignatureChoices, t \in ThreadChoices,
        m \in UNION {TemplateChoices(x) : x \in SignatureChoices} }

DocumentOf(a) == Join(a.draft, "") \o Join(a.sig, "") \o Join(a.thread, "")

InitExtract ==
    /\ SessionIdle
    /\ fnName = "extractPreservedContent"
    /\ fnArgs \in {a \in ExtractInputs : a.template \in TemplateChoices(a.sig)}
    /\ fnResult = <<>>

CallExtractPreservedContent ==
    /\ fnName = "extractPreservedContent"
    /\ fnResult = <<>>
    /\ fnResult' = <<extractPreservedContent(DocumentOf(fnArgs), fnArgs.template)>>
    /\ UNCHANGED <<sessionVars, fnName, fnArgs>>

NextExtract == CallExtractPreservedContent

SpecExtract == InitExtract /\ [][NextExtract]_vars

(***************************************************************************)
(* Claims about extractPreservedContent                                    *)
(***************************************************************************)
ExtractResult == fnResult[1]

ExtractRoots == ParseHtml(DocumentOf(fnArgs))

\* the document is draft, then the blocks of the unchanged session template
\* (one or more, with a text the template rule accepts), then a thread whose
\* first block is the thread start the locator finds
WellFormedCompose ==
    /\ Len(fnArgs.sig) >= 1
    /\ fnArgs.template = <<BlocksText(fnArgs.sig)>>
    /\ Len(fnArgs.template[1]) > MinTemplateLen
    /\ Len(fnArgs.thread) >= 1
    /\ ThreadRoot(ExtractRoots) = Len(fnArgs.draft) + Len(fnArgs.sig) + 1

\* C2: for a document of draft blocks, the blocks of the unchanged session
\* template and a thread, signatureHtml is all the signature blocks and
\* threadHtml is the thread start with its following siblings, so that a
\* replacement draft followed by both is the document with only the draft
\* replaced.
C2_SignatureAndThreadCovered ==
    (Called("extractPreservedContent") /\ WellFormedCompose) =>
        /\ ExtractResult.signatureHtml = Join(fnArgs.sig, "")
        /\ ExtractResult.threadHtml = Join(fnArgs.thread, "")

\* C3: signatureHtml and threadHtml are disjoint runs of the root-level
\* blocks: threadHtml is the blocks from some block j to the end, and
\* signatureHtml is empty or the blocks from some block i up to, not
\* including, block j.
C3_NoBlockCapturedTwice ==
    Called("extractPreservedContent") =>
        \E j \in 1..(Len(ExtractRoots) + 1) :
            /\ ExtractResult.threadHtml = Serialize(SubSeq(ExtractRoots, j, Len(ExtractRoots)))
            /\ \/ ExtractResult.signatureHtml = ""
               \/ \E i \in 1..(j - 1) :
                     ExtractResult.signatureHtml = Serialize(SubSeq(ExtractRoots, i, j - 1))

\* a signature was found before a thread that itself holds a closing phrase
C3_Witness ==
    /\ Called("extractPreservedContent")
    /\ ExtractResult.signatureHtml # ""
    /\ ExtractResult.threadHtml # ""
    /\ \E k \in 1..Len(fnArgs.thread) : HasSignaturePhrase(BlocksText(<<fnArgs.thread[k]>>))

\* C24: extractPreservedContent finds the thread start that parseEmailHtml
\* finds: threadHtml is empty exactly when parseEmailHtml finds no thread
\* region, a document whose only separator is a plain hr included, and
\* otherwise it is the blocks of that region.
C24_SameThreadStart ==
    Called("extractPreservedContent") =>
        /\ (ExtractResult.threadHtml # "") <=> (ThreadRootOrRule(ExtractRoots) # 0)
        /\ ThreadRootOrRule(ExtractRoots) # 0 =>
               ExtractResult.threadHtml =
                   Serialize(SubSeq(ExtractRoots, ThreadRootOrRule(ExtractRoots), Len(ExtractRoots)))

(***************************************************************************)
(* SpecFormat: formatBodyForInsert applied to result bodies of up to       *)
(* MaxBodyLines lines taken from a catalogue of lines.                     *)
(***************************************************************************)
MaxBodyLines == 3

BodyLines ==
    << "Hello **Al**", "- item *one*", "1. first", "", "See [[TABLE_1]] and [[IMAGE_2]]",
       "[[TABLE_1]]", "<p>Hi [[IMAGE_2]]</p>", "plain text" >>

FormatInputs ==
    { Join([i \in DOMAIN f |-> BodyLines[f[i]]], "\n") :
        f \in UNION {[1..m -> 1..Len(BodyLines)] : m \in 1..MaxBodyLines} }

InitFormat ==
    /\ SessionIdle
    /\ fnName = "formatBodyForInsert"
    /\ fnArgs \in FormatInputs
    /\ fnResult = <<>>

CallFormatBodyForInsert ==
    /\ fnName = "formatBodyForInsert"
    /\ fnResult = <<>>
    /\ fnResult' = <<formatBodyForInsert(fnArgs)>>
    /\ UNCHANGED <<sessionVars, fnName, fnArgs>>

NextFormat == CallFormatBodyForInsert

SpecFormat == InitFormat /\ [][NextFormat]_vars

(***************************************************************************)
(* Claims about formatBodyForInsert                                        *)
(***************************************************************************)
Placeholders == {"[[TABLE_1]]", "[[IMAGE_2]]"}

\* C5: every placeholder [[KIND_N]] of the body occurs unchanged in the
\* formatted body, on the HTML path and on the markdown path, several
\* placeholders on one line included.
C5_PlaceholdersPreserved ==
    Called("formatBodyForInsert") =>
        \A token \in Placeholders :
            Includes(fnArgs, token) => Includes(fnResult[1], token)

FormatResult == fnResult[1]

MarkdownPath == Called("formatBodyForInsert") /\ ~IsHtmlBody(fnArgs)

\* C14: on the markdown path every <p>, <ul> and <ol> open tag of the
\* returned HTML carries the margin style, for every input, a single plain
\* line included: no open tag is left bare.
C14_OpenTagsStyled ==
    MarkdownPath =>
        /\ ~Includes(FormatResult, "<p>")
        /\ ~Includes(FormatResult, "<ul>")
        /\ ~Includes(FormatResult, "<ol>")
        /\ \/ Includes(FormatResult, ParagraphStyle)
           \/ Includes(FormatResult, "<ul style=\"margin-bottom: 15px;\">")
           \/ Includes(FormatResult, "<ol style=\"margin-bottom: 15px;\">")

\* the block tag that starts at position i of a string: "p", "ul", "ol" for
\* an open tag, bare or styled, "/p", "/ul", "/ol" for a close tag, "" for
\* no block tag
BlockTagAt(str, i) ==
    IF StartsAt(str, i, "<p>") \/ StartsAt(str, i, "<p ") THEN "p"
    ELSE IF StartsAt(str, i, "<ul") THEN "ul"
    ELSE IF StartsAt(str, i, "<ol") THEN "ol"
    ELSE IF StartsAt(str, i, "</p>") THEN "/p"
    ELSE IF StartsAt(str, i, "</ul>") THEN "/ul"
    ELSE IF StartsAt(str, i, "</ol>") THEN "/ol"
    ELSE ""

\* the block tags at a set of positions, in the order of the positions
TokensAt(str, found) ==
    [k \in 1..Cardinality(found) |->
        BlockTagAt(str, CHOOSE i \in found : Cardinality({n \in found : n <= i}) = k)]

\* the block tags of a string, in order
BlockTokens(str) ==
    Let({i \in 1..Len(str) : BlockTagAt(str, i) # ""}, LAMBDA found : TokensAt(str, found))

\* open and close tags alternate, each close tag closing the block that the
\* tag before it opened, and the last block is closed
WellNested(tokens) ==
    /\ Len(tokens) % 2 = 0
    /\ \A k \in 1..Len(tokens) :
          IF k % 2 = 1 THEN tokens[k] \in {"p", "ul", "ol"}
          ELSE tokens[k] = "/" \o tokens[k - 1]

\* the lines of the body that are items of a list of the given pattern
ItemLines(lines, pattern) ==
    {k \in 1..Len(lines) : LineMatch(pattern, Trim(lines[k])) # <<>>}

\* the number of runs of consecutive lines in a set of line numbers
Runs(S) == Cardinality({k \in S : k - 1 \notin S})

Occurrences(tokens, t) == Cardinality({k \in 1..Len(tokens) : tokens[k] = t})

\* C15: the block pass gives well-nested block markup: an open list or
\* paragraph is closed before another block starts, every open tag has its
\* one close tag, no close tag comes without its open tag before it, and
\* each run of consecutive list lines gives exactly one list.
C15_WellNestedBlocks ==
    MarkdownPath =>
        /\ WellNested(BlockTokens(FormatResult))
        /\ Occurrences(BlockTokens(FormatResult), "ul")
               = Runs(ItemLines(SplitLines(fnArgs), unorderedPattern))
        /\ Occurrences(BlockTokens(FormatResult), "ol")
               = Runs(ItemLines(SplitLines(fnArgs), orderedPattern))

\* C16: formatBodyForInsert applied to its own output returns the output
\* unchanged.
C16_Idempotent ==
    Called("formatBodyForInsert") => formatBodyForInsert(FormatResult) = FormatResult

(***************************************************************************)
(* SpecParse: parseEmailHtml applied to documents of up to MaxBlocks       *)
(* root-level nodes taken from a catalogue                                 *)
(***************************************************************************)
MaxBlocks == 3

ParseBlocks ==
    << "<div>Hi Al </div>",
       "<blockquote>Old text</blockquote>",
       "<div class=\"gmail_quote\">Al wrote</div>",
       "<div><p>From: Al Sent: Monday</p></div>",
       "<hr>",
       "<p>De : Al Envoyé : lundi</p>",
       "<div><span>Note</span><hr tabindex=\"-1\"></div>",
       " Thanks" >>

ParseInputs ==
    { [i \in DOMAIN f |-> ParseBlocks[f[i]]] :
        f \in UNION {[1..m -> 1..Len(ParseBlocks)] : m \in 1..MaxBlocks} }

InitParse ==
    /\ SessionIdle
    /\ fnName = "parseEmailHtml"
    /\ fnArgs \in ParseInputs
    /\ fnResult = <<>>

CallParseEmailHtml ==
    /\ fnName = "parseEmailHtml"
    /\ fnResult = <<>>
    /\ fnResult' = <<parseEmailHtml(Join(fnArgs, ""))>>
    /\ UNCHANGED <<sessionVars, fnName, fnArgs>>

NextParse == CallParseEmailHtml

SpecParse == InitParse /\ [][NextParse]_vars

(***************************************************************************)
(* Claims about parseEmailHtml                                             *)
(***************************************************************************)
ParseResult1 == fnResult[1]

ParseRoots == ParseHtml(Join(fnArgs, ""))

ParseEls == DocOrder(ParseRoots, 1)

\* the elements a probe matches, as indexes of the document order
MarkerHits(k) == {i \in 1..Len(ParseEls) : Matches(ParseEls[i].node, threadMarkers[k])}

HeaderHits ==
    {i \in 1..Len(ParseEls) :
        /\ ParseEls[i].node.tag \in {"div", "p", "font"}
        /\ IsThreadHeader(ElText(ParseEls[i].node))}

RuleHits == {i \in 1..Len(ParseEls) : ParseEls[i].node.tag = "hr"}

MarkersFound == {k \in 1..Len(threadMarkers) : MarkerHits(k) # {}}

\* the thread node by the probe order of the claim; 0 when no probe matches
ProbedNode ==
    IF MarkersFound # {} THEN MinOf(MarkerHits(MinOf(MarkersFound)))
    ELSE IF HeaderHits # {} THEN MinOf(HeaderHits)
    ELSE IF RuleHits # {} THEN MinOf(RuleHits)
    ELSE 0

\* the flattened text of the root-level nodes from a to b
RegionText(a, b) == TextContent(SubSeq(ParseRoots, a, b))

\* C11: the thread node is the first match of the first marker of the list
\* that matches anything; without a marker the first div, p or font whose text
\* holds a header pattern; without that the first hr; otherwise there is no
\* thread node.  The texts returned are split at that node's root-level block.
C11_ProbeOrder ==
    Called("parseEmailHtml") =>
        IF ProbedNode = 0 THEN ParseResult1.threadContent = ""
        ELSE /\ ParseResult1.currentMessage = Trim(RegionText(1, ParseEls[ProbedNode].root - 1))
             /\ ParseResult1.threadContent =
                    Trim(RegionText(ParseEls[ProbedNode].root, Len(ParseRoots)))

\* C11's case: a marker later in the list occurs earlier in the document
\* than the marker that wins, in another root-level block
C11_Witness ==
    /\ Called("parseEmailHtml")
    /\ \E k \in MarkersFound :
          /\ k > MinOf(MarkersFound)
          /\ ParseEls[MinOf(MarkerHits(k))].root < ParseEls[ProbedNode].root
    /\ ParseResult1.currentMessage # ""

\* C12 as stated: without a thread node threadText is empty and
\* currentMessageText is the full flattened text of the document.
C12_FullText ==
    (Called("parseEmailHtml") /\ ProbedNode = 0) =>
        /\ ParseResult1.threadContent = ""
        /\ ParseResult1.currentMessage = RegionText(1, Len(ParseRoots))

\* C12 amended: without a thread node threadText is empty and
\* currentMessageText is the full flattened text of the document with the
\* white space at its two ends removed.
C12_FullTextTrimmed ==
    (Called("parseEmailHtml") /\ ProbedNode = 0) =>
        /\ ParseResult1.threadContent = ""
        /\ ParseResult1.currentMessage = Trim(RegionText(1, Len(ParseRoots)))

\* C12's case: a document without a thread node whose text has white space
\* at an end
C12_Witness ==
    /\ Called("parseEmailHtml")
    /\ ProbedNode = 0
    /\ Len(fnArgs) > 1
    /\ ParseResult1.currentMessage # RegionText(1, Len(ParseRoots))

\* C13: when a thread node is found, the root-level nodes fall into two
\* contiguous regions in document order: those before the root-level node
\* that is or contains the thread node give the current message, that node
\* and all after it give the thread; each root-level node is in one region.
C13_TwoRegions ==
    (Called("parseEmailHtml") /\ ThreadRootOrRule(ParseRoots) # 0) =>
        \E r \in 1..Len(ParseRoots) :
            /\ r = ThreadRootOrRule(ParseRoots)
            /\ \E i \in 1..Len(ParseEls) : i = ProbedNode /\ ParseEls[i].root = r
            /\ ParseResult1.currentMessage = Trim(TextContent(SubSeq(ParseRoots, 1, r - 1)))
            /\ ParseResult1.threadContent = Trim(TextContent(SubSeq(ParseRoots, r, Len(ParseRoots))))
            /\ SubSeq(ParseRoots, 1, r - 1) \o SubSeq(ParseRoots, r, Len(ParseRoots)) = ParseRoots

\* C13's case: the thread node lies inside a root-level node, after text of
\* that node, with a node before it and a node after it
C13_Witness ==
    /\ Called("parseEmailHtml")
    /\ ProbedNode # 0
    /\ ParseEls[ProbedNode].root \in 2..(Len(ParseRoots) - 1)
    /\ ParseRoots[ParseEls[ProbedNode].root] # ParseEls[ProbedNode].node
    /\ ParseResult1.currentMessage # ""
    /\ ParseResult1.threadContent # ElText(ParseRoots[ParseEls[ProbedNode].root])

(***************************************************************************)
(* SpecClean: the thread text a capture keeps with the toggle checked       *)
(* (parseEmailHtml, then cleanThreadContent) for a message, a rule, a       *)
(* quoted header of four fields in English, French or German, and the       *)
(* quoted text                                                              *)
(***************************************************************************)
\* the labels of a quoted header as Outlook writes them
FieldLabels ==
    << <<"From:", "Sent:", "To:", "Subject:">>,
       <<"De :", "Envoyé :", "À :", "Objet :">>,
       <<"Von:", "Gesendet:", "An:", "Betreff:">> >>

FieldValues ==
    << {" A ", " Anna Tobin "}, {" B ", " Montag, 3. Januar "}, {" C ", " Bo, Cy "}, {" D", " Plan"} >>

Rules == {"<hr tabindex=\"-1\">", "<hr>"}

QuotedTexts == {"", "<div>Old text</div>"}

\* a document: fnArgs[1] the language, fnArgs[2] the four values, fnArgs[3]
\* the rule, fnArgs[4] the quoted text
CleanInputs ==
    { <<lang, <<from, sent, to, subject>>, rule, quoted>> :
        lang \in 1..Len(FieldLabels),
        from \in FieldValues[1], sent \in FieldValues[2],
        to \in FieldValues[3], subject \in FieldValues[4],
        rule \in Rules, quoted \in QuotedTexts }

HeaderText(lang, values) ==
    FieldLabels[lang][1] \o values[1] \o FieldLabels[lang][2] \o values[2] \o
    FieldLabels[lang][3] \o values[3] \o FieldLabels[lang][4] \o values[4]

CleanDocument(args) ==
    "<div>Hello world</div>" \o args[3] \o "<div>" \o HeaderText(args[1], args[2]) \o "</div>" \o args[4]

InitClean ==
    /\ SessionIdle
    /\ fnName = "cleanThreadContent"
    /\ fnArgs \in CleanInputs
    /\ fnResult = <<>>

\* the thread text of a parsed body, cleaned
CleanParsed(parsed) ==
    [currentMessage |-> parsed.currentMessage,
     threadContent |-> cleanThreadContent(parsed.threadContent)]

CallCleanThreadContent ==
    /\ fnName = "cleanThreadContent"
    /\ fnResult = <<>>
    /\ fnResult' = <<CleanParsed(parseEmailHtml(CleanDocument(fnArgs)))>>
    /\ UNCHANGED <<sessionVars, fnName, fnArgs>>

NextClean == CallCleanThreadContent

SpecClean == InitClean /\ [][NextClean]_vars

(***************************************************************************)
(* Claims about the cleaned thread text                                    *)
(***************************************************************************)
CleanResult == fnResult[1]

\* the document of the claim
ExampleArgs == <<1, <<" A ", " B ", " C ", " D">>, "<hr tabindex=\"-1\">", "">>

\* what the claim says a pass leaves of a field: its label and a newline
LabelLines ==
    << <<"From:\n", "Sent:\n", "To:\n">>,
       <<"De:\n", "Envoyé:\n", "À:\n">>,
       <<"Von:\n", "Gesendet:\n", "An:\n">> >>

\* the text each pass looks ahead for, in lower case
AheadTexts ==
    << <<"sent:", "to:", "subject:">>,
       <<"envoyé", "à", "objet">>,
       <<"gesendet", "an", "betreff">> >>

\* the part of a field's value from the first occurrence of the text looked
\* ahead for on; "" when the text does not occur in the value
KeptOf(value, ahead) ==
    Let(IndexFrom(ToLower(value), ahead, 1), LAMBDA k :
        IF k = 0 THEN "" ELSE SubSeq(value, k, Len(value)))

\* a header after the three passes of its language
PassedHeader(lang, values) ==
    LabelLines[lang][1] \o KeptOf(values[1], AheadTexts[lang][1]) \o
    LabelLines[lang][2] \o KeptOf(values[2], AheadTexts[lang][2]) \o
    LabelLines[lang][3] \o KeptOf(values[3], AheadTexts[lang][3]) \o
    FieldLabels[lang][4] \o values[4]

MaxPromptCalls == 4

\* the names and instructions passed to add and update
PromptInputs == {<<" Reply ", "Answer it.\n">>, <<"Short", "Be brief">>}

\* the ids passed to update and delete: every id generated so far, stored
\* or deleted since, and one that never was
KnownIds == {generateId(n) : n \in 0..idsGenerated}

InitPrompts ==
    /\ SessionState("", DefaultSettings, FALSE, TRUE, 0)
    /\ processLimit = MaxProcesses
    /\ savedPrompts = NoItem
    /\ idsGenerated = 0
    /\ promptCalls = 0
    /\ NoCall

\* a call of the promptManager returns: the item, the ids and the call
PromptCall(name, args, r) ==
    /\ promptCalls < MaxPromptCalls
    /\ promptCalls' = promptCalls + 1
    /\ savedPrompts' = r.item
    /\ idsGenerated' = r.ids
    /\ fnName' = name
    /\ fnArgs' = args
    /\ fnResult' = <<r.ret>>
    /\ UNCHANGED <<hostBody, hostSubject, settings, captureVars, resultVars, errorVars,
                   inputVars, buttonVars, toast, asyncVars, countVars>>

CallAdd ==
    \E t \in PromptInputs :
        PromptCall("add", t, add(savedPrompts, idsGenerated, t[1], t[2]))

CallUpdate ==
    \E id \in KnownIds, t \in PromptInputs :
        PromptCall("update", <<id>> \o t, update(savedPrompts, idsGenerated, id, t[1], t[2]))

CallDelete ==
    \E id \in KnownIds :
        PromptCall("delete", <<id>>, delete(savedPrompts, idsGenerated, id))

CallInitDefaults ==
    PromptCall("initDefaults", <<>>, initDefaults(savedPrompts, idsGenerated))

NextPrompts == CallAdd \/ CallUpdate \/ CallDelete \/ CallInitDefaults

SpecPrompts == InitPrompts /\ [][NextPrompts]_vars

(***************************************************************************)
(* Claims about the saved prompts                                          *)
(***************************************************************************)
\* promptManager.getAll() before and after a step
Stored == getSavedPrompts(savedPrompts)

StoredNext == getSavedPrompts(savedPrompts')

\* a step in which the named operation of the promptManager is called
PromptStep(name) == promptCalls' = promptCalls + 1 /\ fnName' = name

HasId(prompts, id) == \E i \in 1..Len(prompts) : prompts[i].id = id

\* the list without its i-th prompt
WithoutAt(prompts, i) == SubSeq(prompts, 1, i - 1) \o SubSeq(prompts, i + 1, Len(prompts))

\* C29: update and delete with an id that is not stored return false and
\* leave what is stored unchanged; update with a stored id returns true and
\* changes only the name and the instruction of that prompt, to the trimmed
\* arguments, keeping its id, its position and all other prompts; delete
\* with a stored id returns true and removes exactly that prompt; add
\* appends one prompt with trimmed fields and leaves the others unchanged.
C29_StoreOperations ==
    [][/\ ((PromptStep("update") \/ PromptStep("delete")) /\ ~HasId(Stored, fnArgs'[1])) =>
              fnResult' = <<FALSE>> /\ UNCHANGED savedPrompts
       /\ (PromptStep("update") /\ HasId(Stored, fnArgs'[1])) =>
              /\ fnResult' = <<TRUE>>
              /\ Len(StoredNext) = Len(Stored)
              /\ \A i \in 1..Len(Stored) :
                    IF Stored[i].id = fnArgs'[1]
                    THEN StoredNext[i] = [id |-> Stored[i].id, name |-> Trim(fnArgs'[2]),
                                          instruction |-> Trim(fnArgs'[3])]
                    ELSE StoredNext[i] = Stored[i]
       /\ (PromptStep("delete") /\ HasId(Stored, fnArgs'[1])) =>
              /\ fnResult' = <<TRUE>>
              /\ \E i \in 1..Len(Stored) :
                    Stored[i].id = fnArgs'[1] /\ StoredNext = WithoutAt(Stored, i)
       /\ PromptStep("add") =>
              /\ StoredNext = Append(Stored, fnResult'[1])
              /\ fnResult'[1].name = Trim(fnArgs'[1])
              /\ fnResult'[1].instruction = Trim(fnArgs'[2])
              /\ ~HasId(Stored, fnResult'[1].id)]_vars

\* C29's case: update was called with a name and an instruction that have
\* white space around them for a stored prompt that another one follows
C29_Witness ==
    /\ fnName = "update" /\ fnResult = <<TRUE>>
    /\ fnArgs[2] = " Reply " /\ fnArgs[3] = "Answer it.\n"
    /\ Len(Stored) >= 2
    /\ Stored[1] = [id |-> fnArgs[1], name |-> "Reply", instruction |-> "Answer it."]

\* C30: initDefaults stores the five default prompts when nothing is stored
\* and changes nothing otherwise; after it the list is not empty, and
\* another call of it would give the same list.
C30_DefaultsOnlyWhenEmpty ==
    [][PromptStep("initDefaults") =>
          /\ Len(Stored) = 0 =>
                /\ Len(StoredNext) = Len(DefaultPrompts)
                /\ \A k \in 1..Len(DefaultPrompts) :
                      /\ StoredNext[k].name = DefaultPrompts[k][1]
                      /\ StoredNext[k].instruction = DefaultPrompts[k][2]
          /\ Len(Stored) # 0 => UNCHANGED <<savedPrompts, idsGenerated>>
          /\ Len(StoredNext) > 0
          /\ initDefaults(savedPrompts', idsGenerated').item = savedPrompts']_vars

\* C30's case: a prompt was added and deleted, the stored list is empty, and
\* initDefaults has stored the defaults
C30_Witness ==
    /\ fnName = "initDefaults"
    /\ idsGenerated = Len(DefaultPrompts) + 1
    /\ Len(Stored) = Len(DefaultPrompts)
    /\ Stored[1] = [id |-> generateId(1), name |-> "Fix Grammar", instruction |-> DefaultPrompts[1][2]]

====
